---- MODULE Spec2Model ----
(***************************************************************************)
(* Migration engine of EastAgileTracker: the two destination orchestrators *)
(* (jira/main.py, linear/main.py), their per-entity migrators and the      *)
(* processed-project files, as one state machine per destination.          *)
(*                                                                         *)
(* A remote call is one invocation of a method of JiraAPI / LinearAPI; its *)
(* outcome (returns, raises) is chosen by the environment.                 *)
(***************************************************************************)
EXTENDS Integers, Sequences, FiniteSets, TLC

(***************************************************************************)
(* Bounds of the model.                                                    *)
(***************************************************************************)
NumProjects == 2
StoriesPerProject == 2
MaxRuns == 2
MaxFailures == 1
MaxLen == 4
MaxAcquires == 8
MaxItems == 250
MaxCallers == 6
MaxAttachments == 2
MaxIterations == 2
MaxMarks == 5
MaxComments == 3
MaxStories == 9
MaxTasks == 3

(***************************************************************************)
(* Python values: an int and a str never compare equal.                    *)
(***************************************************************************)
DigitSeq == <<"0", "1", "2", "3", "4", "5", "6", "7", "8", "9">>

Digits == {DigitSeq[i] : i \in 1..10}

DigitVal(c) == (CHOOSE i \in 1..10 : DigitSeq[i] = c) - 1

PyInt(n) == [py |-> "int", i |-> n, s |-> <<>>]

PyStr(t) == [py |-> "str", i |-> 0, s |-> t]

\* str(n) / f"{n}": the decimal digits of a natural number
RECURSIVE IntToStr(_)
IntToStr(n) ==
    IF n < 10 THEN <<DigitSeq[n + 1]>>
    ELSE IntToStr(n \div 10) \o <<DigitSeq[(n % 10) + 1]>>

\* str.isdigit(): non-empty and every character a digit
IsDigit(t) == Len(t) > 0 /\ \A i \in 1..Len(t) : t[i] \in Digits

\* int(t) of a string of digits
RECURSIVE StrToInt(_)
StrToInt(t) ==
    IF Len(t) = 0 THEN 0
    ELSE 10 * StrToInt(SubSeq(t, 1, Len(t) - 1)) + DigitVal(t[Len(t)])

\* str.split(sep), sep one character: the pieces between the separators
RECURSIVE Split(_, _)
Split(t, sep) ==
    IF \A i \in 1..Len(t) : t[i] # sep THEN <<t>>
    ELSE LET k == CHOOSE i \in 1..Len(t) :
                      t[i] = sep /\ \A j \in 1..(i - 1) : t[j] # sep
         IN  <<SubSeq(t, 1, k - 1)>> \o Split(SubSeq(t, k + 1, Len(t)), sep)

Range(f) == {f[i] : i \in DOMAIN f}

(***************************************************************************)
(* The reference a Blocker description carries, as process_blockers reads  *)
(* it.  NoRef: the blocker is ignored.                                     *)
(***************************************************************************)
NoRef == -1

\* a token that a space does not end
BlockerTokenWithSpaces(description) == Split(description, "#")[2]

BlockerToken(description) == Split(Split(description, "#")[2], " ")[1]

ParseBlockerId(description) ==
    IF "#" \notin Range(description) THEN NoRef
    ELSE IF IsDigit(BlockerToken(description))
         THEN StrToInt(BlockerToken(description))
         ELSE NoRef

(***************************************************************************)
(* The source snapshot (models.py): NumProjects projects, each with        *)
(* StoriesPerProject stories, one member, one epic on one label; the       *)
(* projects with an odd id have one iteration, the others none.            *)
(***************************************************************************)
ProjectIds == 1..NumProjects

Stories(p) == [i \in 1..StoriesPerProject |-> (p - 1) * StoriesPerProject + i]

AllStories == UNION {Range(Stories(p)) : p \in ProjectIds}

ProjectOf(s) == ((s - 1) \div StoriesPerProject) + 1

IsFirstStory(s) == (s - 1) % StoriesPerProject = 0

\* Project.members: person 1 is the member of the odd projects, person 2 of
\* the even ones
Members(p) == <<2 - (p % 2)>>

\* get_user(email): the destination's directory knows person 1 only
InDirectory(u) == u = 1

\* Project.epics: one epic, whose label_id is the project's first label
Epics(p) == <<[id |-> p, label_id |-> p]>>

\* Label rows of the project: name -> id (get_pt_label_mapping)
LabelName(l) == 100 + l

ProjectLabels(p) == {p, NumProjects + p}

\* Project.iterations: Iteration.number, unique per project only
Iterations(p) == IF p % 2 = 1 THEN <<1>> ELSE <<>>

\* Story.labels (names): the first story carries the epic's label
StoryLabels(s) ==
    IF IsFirstStory(s) THEN <<LabelName(ProjectOf(s))>>
    ELSE <<LabelName(NumProjects + ProjectOf(s))>>

\* Story.estimate is set and non-zero
HasPoints(s) == IsFirstStory(s)

\* Story.current_state maps to a status other than "Unstarted"
NeedsTransition(s) == IsFirstStory(s)

\* Story.tasks
StoryTasks(s) ==
    IF IsFirstStory(s) THEN <<[id |-> 10 * s + 1, complete |-> TRUE]>> ELSE <<>>

\* Story.comments with Comment.file_attachments
StoryComments(s) ==
    <<[id |-> 10 * s + 1,
       attachments |-> IF IsFirstStory(s) THEN <<100 * s + 1>> ELSE <<>>]>>

\* Story.blockers: every story but the first is blocked by the story before
\* it, "#<id> x"; it also keeps an older, resolved blocker
StoryBlockers(s) ==
    IF IsFirstStory(s) THEN <<>>
    ELSE <<[description |-> <<"#">> \o IntToStr(s - 1) \o <<" ", "x">>,
            resolved |-> FALSE],
           [description |-> <<"#">> \o IntToStr(s - 1),
            resolved |-> TRUE]>>

\* destination identifiers, as the remote system hands them out
IssueKey(s) == 1000 + s

EpicKey(e) == 2000 + e

SprintId(n) == 3000 + n

Call(kind, ref, other) == [kind |-> kind, ref |-> ref, other |-> other]

(***************************************************************************)
(* Sequential remote calls.  cs is the sequence of calls a piece of code   *)
(* makes, each marked fatal when its exception leaves that code; F is the  *)
(* set of calls the environment fails.  The calls actually sent, and       *)
(* whether the code raised.                                                *)
(***************************************************************************)
RECURSIVE RunCalls(_, _)
RunCalls(cs, F) ==
    IF cs = <<>> THEN [sent |-> {}, raised |-> FALSE]
    ELSE LET h == Head(cs)
         IN  IF h.c \in F /\ h.fatal
             THEN [sent |-> {h.c}, raised |-> TRUE]
             ELSE LET r == RunCalls(Tail(cs), F)
                  IN  [sent |-> {h.c} \cup r.sent, raised |-> r.raised]

Step(c, fatal) == [c |-> c, fatal |-> fatal]

(***************************************************************************)
(* jira/migrators/project_migrator.py: ProjectMigrator.migrate.  The board *)
(* (filter + board) may fail without failing the project; the screens and  *)
(* the administrator role may not.                                         *)
(***************************************************************************)
JiraWorkspaceSteps(p) ==
    <<Step(Call("create_project", p, 0), TRUE),
      Step(Call("assign_workflow_scheme", p, 0), TRUE),
      Step(Call("create_board", p, 0), FALSE),
      Step(Call("configure_screens", p, 0), TRUE),
      Step(Call("add_admin_role", p, 0), TRUE)>>

JiraMigrateWorkspace(p, F) == RunCalls(JiraWorkspaceSteps(p), F)

(***************************************************************************)
(* jira/migrators/user_migrator.py: UserMigrator.migrate_user.  found: the *)
(* directory search returned exactly one user.                             *)
(***************************************************************************)
JiraUserSteps(u, found) ==
    <<Step(Call("get_user", u, 0), TRUE)>>
    \o (IF found THEN <<>> ELSE <<Step(Call("create_user", u, 0), TRUE)>>)

JiraMigrateUser(u, found, F) == RunCalls(JiraUserSteps(u, found), F)

(***************************************************************************)
(* jira/migrators/issue_migrator.py: IssueMigrator.migrate_epic.           *)
(***************************************************************************)
JiraMigrateEpic(e, F) == RunCalls(<<Step(Call("create_epic", e.id, 0), TRUE)>>, F)

(***************************************************************************)
(* jira/migrators/issue_migrator.py: IssueMigrator.migrate_task and        *)
(* migrate_tasks: a task that fails is logged, the next one is attempted.  *)
(***************************************************************************)
JiraTaskSteps(s, task) ==
    <<Step(Call("create_subtask", s, task.id), TRUE)>>
    \o (IF task.complete
        THEN <<Step(Call("transition_subtask", s, task.id), TRUE)>>
        ELSE <<>>)

JiraMigrateTasks(s, F) ==
    UNION {RunCalls(JiraTaskSteps(s, StoryTasks(s)[i]), F).sent :
               i \in DOMAIN StoryTasks(s)}

(***************************************************************************)
(* jira/migrators/issue_migrator.py: IssueMigrator.migrate_issue: create   *)
(* the issue, set its points, move it to its status, then its tasks.       *)
(* Any exception leaves as IssueMigrationError.                            *)
(***************************************************************************)
JiraIssueSteps(s) ==
    <<Step(Call("create_issue", s, 0), TRUE)>>
    \o (IF HasPoints(s) THEN <<Step(Call("update_issue", s, 0), TRUE)>> ELSE <<>>)
    \o (IF NeedsTransition(s)
        THEN <<Step(Call("transition_issue", s, 0), TRUE)>>
        ELSE <<>>)

\* a migrate_issue that goes on to the tasks whatever happened before
JiraMigrateIssueTasksAnyway(s, F) ==
    LET r == RunCalls(JiraIssueSteps(s), F)
    IN  [sent |-> r.sent \cup JiraMigrateTasks(s, F), raised |-> r.raised]

JiraMigrateIssue(s, F) ==
    LET r == RunCalls(JiraIssueSteps(s), F)
    IN  IF r.raised THEN r
        ELSE [sent |-> r.sent \cup JiraMigrateTasks(s, F), raised |-> FALSE]

(***************************************************************************)
(* jira/migrators/issue_migrator.py: IssueMigrator.link_issues_to_epics,   *)
(* one story: the first label that names a migrated epic and whose link    *)
(* call succeeds ends the loop.                                            *)
(***************************************************************************)
LabelMapping(p) == [n \in {LabelName(l) : l \in ProjectLabels(p)} |-> n - 100]

\* a loop without its "break": every label that names a migrated epic
JiraLinkEveryLabel(s, labels, epics, p, F) ==
    {Call("link_issue_to_epic", s, LabelMapping(p)[labels[i]]) :
        i \in {k \in DOMAIN labels :
                  /\ labels[k] \in DOMAIN LabelMapping(p)
                  /\ LabelMapping(p)[labels[k]] \in DOMAIN epics}}

RECURSIVE JiraLinkLabels(_, _, _, _, _)
JiraLinkLabels(s, labels, epics, p, F) ==
    IF labels = <<>> THEN {}
    ELSE LET name == Head(labels)
             known == name \in DOMAIN LabelMapping(p)
             label_id == IF known THEN LabelMapping(p)[name] ELSE 0
             c == Call("link_issue_to_epic", s, label_id)
         IN  IF known /\ label_id \in DOMAIN epics
             THEN IF c \in F
                  THEN {c} \cup JiraLinkLabels(s, Tail(labels), epics, p, F)
                  ELSE {c}
             ELSE JiraLinkLabels(s, Tail(labels), epics, p, F)

JiraLinkStory(s, issues, epics, F) ==
    IF s \notin DOMAIN issues THEN {}
    ELSE JiraLinkLabels(s, StoryLabels(s), epics, ProjectOf(s), F)

(***************************************************************************)
(* jira/migrators/issue_migrator.py: IssueMigrator.process_blockers, one   *)
(* story: the link requests made, in order.                                *)
(***************************************************************************)
Link(blocker_key, blocked_key, from, to) ==
    [blocker_key |-> blocker_key, blocked_key |-> blocked_key,
     from |-> from, to |-> to]

RECURSIVE JiraBlockerLinks(_, _, _)
JiraBlockerLinks(s, blockers, issues) ==
    IF blockers = <<>> THEN <<>>
    ELSE LET b == Head(blockers)
             blocker_id == ParseBlockerId(b.description)
             rest == JiraBlockerLinks(s, Tail(blockers), issues)
         IN  IF /\ ~b.resolved
                /\ blocker_id # NoRef
                /\ blocker_id \in DOMAIN issues
                /\ s \in DOMAIN issues
             THEN <<Link(issues[blocker_id], issues[s], blocker_id, s)>> \o rest
             ELSE rest

JiraProcessBlockers(s, issues) ==
    {Call("create_blocker_link", l.to, l.from) :
         l \in Range(JiraBlockerLinks(s, StoryBlockers(s), issues))}

(***************************************************************************)
(* linear/migrators/relation_migrator.py: RelationMigrator                 *)
(* .migrate_story_relations.  blocker.story is the story the blocker is    *)
(* attached to (models.py, Blocker.story); the description is not read.    *)
(* fails: the relation call raises, which leaves the function as           *)
(* RelationMigrationError.                                                 *)
(***************************************************************************)
RECURSIVE LinearBlockerRelations(_, _, _, _)
LinearBlockerRelations(s, blockers, issues, fails) ==
    IF blockers = <<>> THEN [links |-> <<>>, raised |-> FALSE]
    ELSE LET b == Head(blockers)
             blocker_story == s
             rest == LinearBlockerRelations(s, Tail(blockers), issues, fails)
             link == Link(issues[blocker_story], issues[s], blocker_story, s)
         IN  IF b.resolved \/ blocker_story \notin DOMAIN issues THEN rest
             ELSE IF fails THEN [links |-> <<link>>, raised |-> TRUE]
             ELSE [links |-> <<link>> \o rest.links, raised |-> rest.raised]

LinearStoryRelations(s, blockers, issues, fails) ==
    IF s \notin DOMAIN issues THEN [links |-> <<>>, raised |-> FALSE]
    ELSE LinearBlockerRelations(s, blockers, issues, fails)

(***************************************************************************)
(* jira/migrators/sprint_migrator.py: migrate_sprint and                   *)
(* associate_issues_with_sprint (one batch: fewer than 45 issues).         *)
(***************************************************************************)
JiraMigrateSprint(n, p, F) ==
    RunCalls(<<Step(Call("create_sprint", p, n), TRUE)>>, F)

IterationStories(p, n) == Stories(p)

JiraAssociate(n, p, issues) ==
    LET keys == {s \in Range(IterationStories(p, n)) : s \in DOMAIN issues}
    IN  IF keys = {} THEN {} ELSE {Call("add_issues_to_sprint", p, n)}

(***************************************************************************)
(* jira/migrators/comment_migrator.py: CommentMigrator.migrate_comments of *)
(* one story: per comment its attachments, then the comment; a failure of  *)
(* either skips that comment.                                              *)
(***************************************************************************)
RECURSIVE AttachmentSteps(_, _)
AttachmentSteps(s, atts) ==
    IF atts = <<>> THEN <<>>
    ELSE <<Step(Call("add_attachment", s, Head(atts)), TRUE)>>
         \o AttachmentSteps(s, Tail(atts))

JiraCommentSteps(s, comment) ==
    AttachmentSteps(s, comment.attachments)
    \o <<Step(Call("create_comment", s, comment.id), TRUE)>>

JiraMigrateComments(s, F) ==
    UNION {RunCalls(JiraCommentSteps(s, StoryComments(s)[i]), F).sent :
               i \in DOMAIN StoryComments(s)}

(***************************************************************************)
(* linear/migrators: team_migrator.migrate_team (setup_team raises,        *)
(* setup_labels logs), user_migrator.migrate_user, project_migrator        *)
(* .migrate_project (an epic), cycle_migrator.migrate_cycle.               *)
(***************************************************************************)
LinearTeamSteps(p) ==
    <<Step(Call("create_team", p, 0), TRUE),
      Step(Call("setup_workflow_states", p, 0), TRUE),
      Step(Call("setup_labels", p, 0), FALSE)>>

LinearMigrateTeam(p, F) == RunCalls(LinearTeamSteps(p), F)

LinearUserSteps(u, mapped, found) ==
    IF mapped THEN <<Step(Call("add_user_to_team", u, 0), TRUE)>>
    ELSE <<Step(Call("get_user", u, 0), TRUE)>>
         \o (IF found THEN <<Step(Call("add_user_to_team", u, 0), TRUE)>>
             ELSE <<Step(Call("invite_user", u, 0), TRUE)>>)

LinearMigrateUser(u, mapped, found, F) ==
    RunCalls(LinearUserSteps(u, mapped, found), F)

LinearMigrateEpic(e, F) ==
    RunCalls(<<Step(Call("create_project", e.id, 0), TRUE)>>, F)

LinearMigrateCycle(n, p, F) ==
    RunCalls(<<Step(Call("create_cycle", p, n), TRUE)>>, F)

(***************************************************************************)
(* The processed-project files: jira/imported_projects.txt and             *)
(* linear/processed_teams.txt, one id per line.                            *)
(***************************************************************************)
\* mark_project_as_imported / mark_team_as_processed: append f"{id}\n"
MarkProcessed(file, id) == Append(file, IntToStr(id))

\* jira/utils.py get_imported_projects: set(int(line.strip()) ...)
GetImportedProjects(file) == {PyInt(StrToInt(file[i])) : i \in DOMAIN file}

\* linear/utils.py get_processed_teams: set(line.strip() ...)
GetProcessedTeams(file) == {PyStr(file[i]) : i \in DOMAIN file}

\* "project_id in imported_projects", project_id = pt_project.id, an int
IsProcessed(d, file, project_id) ==
    IF d = "jira" THEN PyInt(project_id) \in GetImportedProjects(file)
    ELSE PyInt(project_id) \in GetProcessedTeams(file)

\* the id is recorded in the file, whatever the reader makes of it
Recorded(file, id) == IntToStr(id) \in Range(file)

(***************************************************************************)
(* State of a run of main() -> run_migration -> migrate_project.           *)
(***************************************************************************)
VARIABLES
    dest,           \* "jira" | "linear": which package's main.py runs
    processedFile,  \* the lines of the processed-project file (durable)
    run,            \* invocations of main() so far
    pc,             \* "idle" | "loop" (run_migration's for) | "project"
    force,          \* --force of the current run
    selected,       \* the projects the current run was asked to migrate
    queue,          \* projects of the current run not yet reached
    attempted,      \* projects migrate_project was called for, in order
    results,        \* project -> "none" | "returned" | "raised"
    unfinished,     \* projects whose latest migrate_project call raised and
                    \* that were not in the processed set when it was entered
    lastRun,        \* "none" | "running" | "done" | "aborted"
    cur,            \* the project migrate_project works on
    stage,          \* position inside migrate_project
    idx,            \* index of the next entity in the stage's loop
    trace,          \* the stages entered by this migrate_project call
    fileAtEntry,    \* processedFile when migrate_project was entered
    sent,           \* remote calls this migrate_project call has made
    failed,         \* those of them that raised
    nfail,          \* remote calls that raised so far
    user_map,       \* UserMigrator.user_map
    epic_map,       \* epic_map (jira) / ProjectMigrator.project_map (linear)
    issue_map,      \* issue_map (jira) / IssueMigrator.issue_map (linear)
    sprint_map,     \* sprint_map (jira) / CycleMigrator.cycle_map (linear)
    unit            \* the function applied on its own, its input and result

runVars == <<dest, run, force, selected, queue, attempted, lastRun, nfail, unit>>

\* what a remote call leaves alone
stillVars == <<dest, run, force, selected, queue, attempted, lastRun, unit>>

callVars == <<cur, fileAtEntry>>

mapVars == <<user_map, epic_map, issue_map, sprint_map>>

vars == <<runVars, processedFile, pc, results, unfinished, callVars, stage, idx,
          trace, sent, failed, mapVars>>

EmptyMap == [x \in {} |-> 0]

Put(map, k, v) == (k :> v) @@ map

RECURSIVE SetToSeq(_)
SetToSeq(S) ==
    IF S = {} THEN <<>>
    ELSE LET m == CHOOSE x \in S : \A y \in S : x <= y
         IN  <<m>> \o SetToSeq(S \ {m})

\* the projects a run is asked to migrate: --all, or one project id
Selections == {ProjectIds} \cup {{p} : p \in ProjectIds}

\* the file main() may find: none yet, or one left by an earlier invocation
InitFiles == {<<>>, <<IntToStr(1)>>}

\* no function is being applied on its own
NoUnit == [fn |-> "none", done |-> FALSE]

Init ==
    /\ dest \in {"jira", "linear"}
    /\ processedFile \in InitFiles
    /\ run = 0
    /\ pc = "idle"
    /\ force = FALSE
    /\ selected = {}
    /\ unfinished = {}
    /\ unit = NoUnit
    /\ queue = <<>>
    /\ attempted = <<>>
    /\ results = EmptyMap
    /\ lastRun = "none"
    /\ cur = 0
    /\ stage = "none"
    /\ idx = 1
    /\ trace = <<>>
    /\ fileAtEntry = <<>>
    /\ sent = {}
    /\ failed = {}
    /\ nfail = 0
    /\ user_map = EmptyMap
    /\ epic_map = EmptyMap
    /\ issue_map = EmptyMap
    /\ sprint_map = EmptyMap

(***************************************************************************)
(* main(project_ids, migrate_all, force, clear) up to run_migration's      *)
(* loop: a new process, so the migrators' maps start empty.  Jira's global *)
(* setup makes remote calls and may raise, which ends the run.             *)
(***************************************************************************)
StartRun(sel, f, clr, setupOk) ==
    /\ pc = "idle"
    /\ run < MaxRuns
    /\ run' = run + 1
    /\ force' = f
    /\ selected' = sel
    /\ processedFile' = IF clr THEN <<>> ELSE processedFile
    /\ attempted' = <<>>
    /\ results' = EmptyMap
    /\ IF setupOk
       THEN pc' = "loop" /\ queue' = SetToSeq(sel) /\ lastRun' = "running"
       ELSE pc' = "idle" /\ queue' = <<>> /\ lastRun' = "aborted"
    /\ cur' = 0
    /\ stage' = "none"
    /\ idx' = 1
    /\ trace' = <<>>
    /\ fileAtEntry' = <<>>
    /\ sent' = {}
    /\ failed' = {}
    /\ nfail' = nfail
    /\ user_map' = EmptyMap
    /\ epic_map' = EmptyMap
    /\ issue_map' = EmptyMap
    /\ sprint_map' = EmptyMap
    /\ UNCHANGED <<dest, unfinished, unit>>

\* run_migration's loop is over: the run ends
EndRun ==
    /\ pc = "loop"
    /\ queue = <<>>
    /\ pc' = "idle"
    /\ lastRun' = "done"
    /\ UNCHANGED <<dest, processedFile, run, force, selected, queue, attempted,
                   results, unfinished, nfail, unit, callVars, stage, idx,
                   trace, sent, failed, mapVars>>

(***************************************************************************)
(* migrate_project, entry: read the processed file; skip the project       *)
(* (return None) when its id is in the set and force_update is not set.    *)
(***************************************************************************)
EnterProject ==
    /\ pc = "loop"
    /\ queue # <<>>
    /\ cur' = Head(queue)
    /\ queue' = Tail(queue)
    /\ attempted' = Append(attempted, Head(queue))
    /\ fileAtEntry' = processedFile
    /\ sent' = {}
    /\ failed' = {}
    /\ idx' = 1
    \* jira keeps epic_map, issue_map and sprint_map in locals of the call
    /\ IF dest = "jira"
       THEN epic_map' = EmptyMap /\ issue_map' = EmptyMap /\ sprint_map' = EmptyMap
       ELSE UNCHANGED <<epic_map, issue_map, sprint_map>>
    /\ UNCHANGED <<dest, processedFile, run, force, selected, lastRun, nfail,
                   unit, unfinished, user_map>>

SkipProject ==
    /\ EnterProject
    /\ IsProcessed(dest, processedFile, Head(queue)) /\ ~force
    /\ pc' = "loop"
    /\ stage' = "skipped"
    /\ trace' = <<>>
    /\ results' = Put(results, Head(queue), "none")

BeginProject ==
    /\ EnterProject
    /\ ~(IsProcessed(dest, processedFile, Head(queue)) /\ ~force)
    /\ pc' = "project"
    /\ stage' = "workspace"
    /\ trace' = <<"workspace">>
    /\ results' = results

(***************************************************************************)
(* Inside migrate_project's try block.                                     *)
(***************************************************************************)
\* the environment fails the calls F: calls that are made, within the budget
Fails(F, made) ==
    /\ F \subseteq made
    /\ nfail + Cardinality(F) <= MaxFailures

Made(made, F) ==
    /\ sent' = sent \cup made
    /\ failed' = failed \cup F
    /\ nfail' = nfail + Cardinality(F)

\* the next statement of the orchestrator: the following stage
Goto(st) ==
    /\ stage' = st
    /\ idx' = 1
    /\ trace' = Append(trace, st)
    /\ pc' = "project"
    /\ results' = results
    /\ unfinished' = unfinished
    /\ processedFile' = processedFile

\* the loop of the current stage goes on with its next entity
NextEntity ==
    /\ stage' = stage
    /\ idx' = idx + 1
    /\ trace' = trace
    /\ pc' = "project"
    /\ results' = results
    /\ unfinished' = unfinished
    /\ processedFile' = processedFile

\* a run_migration whose loop ends with the first failing project
AbortRun == "idle"

\* where run_migration goes when migrate_project raised its migration
\* error: "except JiraMigrationError / LinearMigrationError" logs it and the
\* for loop takes the next project
AfterProjectError == "loop"

\* a migrate_project that records the project in a finally clause
FileOnErrorMarked(file, id) == Append(file, IntToStr(id))

\* the processed file after migrate_project's except clause: the clause logs
\* and raises, it writes nothing
FileOnError(file, id) == file

\* "except Exception as e: raise JiraMigrationError / LinearMigrationError":
\* the call ends
Raise ==
    /\ stage' = "failed"
    /\ idx' = idx
    /\ trace' = Append(trace, "failed")
    /\ pc' = AfterProjectError
    /\ results' = Put(results, cur, "raised")
    /\ unfinished' = IF Recorded(fileAtEntry, cur) THEN unfinished \ {cur}
                     ELSE unfinished \cup {cur}
    /\ processedFile' = FileOnError(processedFile, cur)

InStage(d, st) == pc = "project" /\ dest = d /\ stage = st

\* the entities a stage loops over
StageItems(st, p) ==
    CASE st = "users" -> Members(p)
      [] st = "epics" -> Epics(p)
      [] st \in {"issues", "links", "blockers", "comments"} -> Stories(p)
      [] st \in {"sprints", "associate", "cycles"} -> Iterations(p)
      [] OTHER -> <<>>

\* a migrate_project for which a project without iterations is an error
NextStageNoPeriodsFails(d, st, p) ==
    IF d = "jira"
    THEN CASE st = "workspace" -> "users"
           [] st = "users" -> "epics"
           [] st = "epics" -> "issues"
           [] st = "issues" -> "links"
           [] st = "links" -> "blockers"
           [] st = "blockers" ->
                  IF Iterations(p) # <<>> THEN "sprints" ELSE "failed"
           [] st = "sprints" -> "associate"
           [] st = "associate" -> "comments"
           [] st = "comments" -> "mark"
           [] OTHER -> "failed"
    ELSE CASE st = "workspace" -> "users"
           [] st = "users" -> "epics"
           [] st = "epics" -> "cycles"
           [] st = "cycles" ->
                  IF Iterations(p) # <<>> THEN "issues" ELSE "failed"
           [] OTHER -> "failed"

\* a migrate_project that creates the periods before the work items
NextStagePeriodsFirst(d, st, p) ==
    CASE st = "workspace" -> "users"
      [] st = "users" -> "epics"
      [] st = "epics" ->
             IF d = "linear" THEN "cycles"
             ELSE IF Iterations(p) # <<>> THEN "sprints" ELSE "issues"
      [] st = "cycles" -> "issues"
      [] st = "sprints" -> "associate"
      [] st = "associate" -> "issues"
      [] st = "issues" -> "links"
      [] st = "links" -> "blockers"
      [] st = "blockers" -> "comments"
      [] st = "comments" -> "mark"
      [] OTHER -> "failed"

\* the statement order of migrate_project (jira/main.py, linear/main.py)
NextStage(d, st, p) ==
    IF d = "jira"
    THEN CASE st = "workspace" -> "users"
           [] st = "users" -> "epics"
           [] st = "epics" -> "issues"
           [] st = "issues" -> "links"
           [] st = "links" -> "blockers"
           [] st = "blockers" ->
                  IF Iterations(p) # <<>> THEN "sprints" ELSE "comments"
           [] st = "sprints" -> "associate"
           [] st = "associate" -> "comments"
           [] st = "comments" -> "mark"
           [] OTHER -> "failed"
    ELSE CASE st = "workspace" -> "users"
           [] st = "users" -> "epics"
           [] st = "epics" -> "cycles"
           [] st = "cycles" -> "issues"
           [] OTHER -> "failed"

LoopStages(d) ==
    IF d = "jira"
    THEN {"users", "epics", "issues", "links", "blockers", "sprints",
          "associate", "comments"}
    ELSE {"users", "epics", "cycles"}

\* a stage's loop has attempted every entity: its migrator returns and
\* migrate_project goes on
StageDone ==
    /\ pc = "project"
    /\ stage \in LoopStages(dest)
    /\ idx > Len(StageItems(stage, cur))
    /\ Goto(NextStage(dest, stage, cur))
    /\ UNCHANGED <<runVars, callVars, sent, failed, mapVars>>

HasNext == idx <= Len(StageItems(stage, cur))

Item == StageItems(stage, cur)[idx]

(************************ jira/main.py, the stages *************************)
JiraWorkspace ==
    /\ InStage("jira", "workspace")
    /\ \E F \in SUBSET Range([i \in DOMAIN JiraWorkspaceSteps(cur) |->
                                  JiraWorkspaceSteps(cur)[i].c]) :
          LET r == JiraMigrateWorkspace(cur, F)
          IN  /\ Fails(F, r.sent)
              /\ Made(r.sent, F)
              /\ IF r.raised THEN Raise ELSE Goto(NextStage(dest, stage, cur))
    /\ UNCHANGED <<stillVars, callVars, mapVars>>

\* migrate_users: "except UserMigrationError" logs and continues
JiraUser ==
    /\ InStage("jira", "users") /\ HasNext
    /\ \E F \in SUBSET {Call("get_user", Item, 0), Call("create_user", Item, 0)} :
          LET r == JiraMigrateUser(Item, InDirectory(Item), F)
          IN  /\ Fails(F, r.sent)
              /\ Made(r.sent, F)
              /\ user_map' = IF r.raised THEN user_map
                             ELSE Put(user_map, Item, 4000 + Item)
    /\ NextEntity
    /\ UNCHANGED <<stillVars, callVars, epic_map, issue_map, sprint_map>>

\* migrate_epics: "except IssueMigrationError" logs and continues
JiraEpic ==
    /\ InStage("jira", "epics") /\ HasNext
    /\ \E F \in SUBSET {Call("create_epic", Item.id, 0)} :
          LET r == JiraMigrateEpic(Item, F)
          IN  /\ Fails(F, r.sent)
              /\ Made(r.sent, F)
              /\ epic_map' = IF r.raised THEN epic_map
                             ELSE Put(epic_map, Item.label_id, EpicKey(Item.id))
    /\ NextEntity
    /\ UNCHANGED <<stillVars, callVars, user_map, issue_map, sprint_map>>

\* all the calls migrate_issue may make for story s
IssueCalls(s) ==
    {Call(k, s, 0) : k \in {"create_issue", "update_issue", "transition_issue"}}
    \cup {Call(k, s, StoryTasks(s)[i].id) :
              k \in {"create_subtask", "transition_subtask"},
              i \in DOMAIN StoryTasks(s)}

\* a migrate_issues without its except clause
IssueErrorPropagates == FALSE

\* migrate_issues' "except IssueMigrationError": the story is logged and
\* skipped, the loop goes on
IssueErrorCaught == TRUE

JiraIssue ==
    /\ InStage("jira", "issues") /\ HasNext
    /\ \E F \in SUBSET IssueCalls(Item) :
          LET r == JiraMigrateIssue(Item, F)
          IN  /\ Fails(F, r.sent)
              /\ Made(r.sent, F)
              /\ issue_map' = IF r.raised THEN issue_map
                              ELSE Put(issue_map, Item, IssueKey(Item))
              /\ IF r.raised /\ ~IssueErrorCaught THEN Raise ELSE NextEntity
    /\ UNCHANGED <<stillVars, callVars, user_map, epic_map, sprint_map>>

JiraLink ==
    /\ InStage("jira", "links") /\ HasNext
    /\ \E F \in SUBSET {Call("link_issue_to_epic", Item, l) :
                            l \in ProjectLabels(cur)} :
          LET made == JiraLinkStory(Item, issue_map, epic_map, F)
          IN  /\ Fails(F, made)
              /\ Made(made, F)
    /\ NextEntity
    /\ UNCHANGED <<stillVars, callVars, mapVars>>

JiraBlockers ==
    /\ InStage("jira", "blockers") /\ HasNext
    /\ LET made == JiraProcessBlockers(Item, issue_map)
       IN  \E F \in SUBSET made :
              /\ Fails(F, made)
              /\ Made(made, F)
    /\ NextEntity
    /\ UNCHANGED <<stillVars, callVars, mapVars>>

\* migrate_sprints: "except SprintMigrationError" logs and continues
JiraSprint ==
    /\ InStage("jira", "sprints") /\ HasNext
    /\ \E F \in SUBSET {Call("create_sprint", cur, Item)} :
          LET r == JiraMigrateSprint(Item, cur, F)
          IN  /\ Fails(F, r.sent)
              /\ Made(r.sent, F)
              /\ sprint_map' = IF r.raised THEN sprint_map
                               ELSE Put(sprint_map, Item, SprintId(Item))
    /\ NextEntity
    /\ UNCHANGED <<stillVars, callVars, user_map, epic_map, issue_map>>

\* "sprint_id = sprint_map[pt_iteration.number]" raises KeyError for an
\* iteration whose sprint was not created
JiraAssociateSprint ==
    /\ InStage("jira", "associate") /\ HasNext
    /\ IF Item \notin DOMAIN sprint_map
       THEN Raise /\ UNCHANGED <<sent, failed, nfail>>
       ELSE /\ LET made == JiraAssociate(Item, cur, issue_map)
               IN  \E F \in SUBSET made :
                      /\ Fails(F, made)
                      /\ Made(made, F)
            /\ NextEntity
    /\ UNCHANGED <<stillVars, callVars, mapVars>>

\* "jira_issue_key = issue_map[pt_story.id]" raises KeyError for a story
\* that is not in the map
JiraComments ==
    /\ InStage("jira", "comments") /\ HasNext
    /\ IF Item \notin DOMAIN issue_map
       THEN Raise /\ UNCHANGED <<sent, failed, nfail>>
       ELSE /\ \E F \in SUBSET (JiraMigrateComments(Item, {})) :
                  LET made == JiraMigrateComments(Item, F)
                  IN  /\ Fails(F, made)
                      /\ Made(made, F)
            /\ NextEntity
    /\ UNCHANGED <<stillVars, callVars, mapVars>>

\* mark_project_as_imported(project_id); return jira_project
JiraComplete ==
    /\ InStage("jira", "mark")
    /\ processedFile' = MarkProcessed(processedFile, cur)
    /\ stage' = "completed"
    /\ trace' = Append(trace, "completed")
    /\ idx' = idx
    /\ pc' = "loop"
    /\ results' = Put(results, cur, "returned")
    /\ unfinished' = unfinished \ {cur}
    /\ UNCHANGED <<dest, run, force, selected, queue, attempted, lastRun, nfail,
                   unit, callVars, sent, failed, mapVars>>

(*********************** linear/main.py, the stages ************************)
LinearTeam ==
    /\ InStage("linear", "workspace")
    /\ \E F \in SUBSET Range([i \in DOMAIN LinearTeamSteps(cur) |->
                                  LinearTeamSteps(cur)[i].c]) :
          LET r == LinearMigrateTeam(cur, F)
          IN  /\ Fails(F, r.sent)
              /\ Made(r.sent, F)
              /\ IF r.raised THEN Raise ELSE Goto(NextStage(dest, stage, cur))
    /\ UNCHANGED <<stillVars, callVars, mapVars>>

\* migrate_users: the map entry is written only for a user the directory
\* returned; "except UserMigrationError" logs and continues
LinearUser ==
    /\ InStage("linear", "users") /\ HasNext
    /\ \E F \in SUBSET {Call(k, Item, 0) :
                            k \in {"get_user", "add_user_to_team", "invite_user"}} :
          LET mapped == Item \in DOMAIN user_map
              found == InDirectory(Item)
              r == LinearMigrateUser(Item, mapped, found, F)
          IN  /\ Fails(F, r.sent)
              /\ Made(r.sent, F)
              /\ user_map' = IF ~mapped /\ found
                                /\ Call("get_user", Item, 0) \notin F
                             THEN Put(user_map, Item, 4000 + Item)
                             ELSE user_map
    /\ NextEntity
    /\ UNCHANGED <<stillVars, callVars, epic_map, issue_map, sprint_map>>

LinearEpic ==
    /\ InStage("linear", "epics") /\ HasNext
    /\ \E F \in SUBSET {Call("create_project", Item.id, 0)} :
          LET r == LinearMigrateEpic(Item, F)
          IN  /\ Fails(F, r.sent)
              /\ Made(r.sent, F)
              /\ epic_map' = IF r.raised THEN epic_map
                             ELSE Put(epic_map, Item.id, EpicKey(Item.id))
    /\ NextEntity
    /\ UNCHANGED <<stillVars, callVars, user_map, issue_map, sprint_map>>

LinearCycle ==
    /\ InStage("linear", "cycles") /\ HasNext
    /\ \E F \in SUBSET {Call("create_cycle", cur, Item)} :
          LET r == LinearMigrateCycle(Item, cur, F)
          IN  /\ Fails(F, r.sent)
              /\ Made(r.sent, F)
              /\ sprint_map' = IF r.raised THEN sprint_map
                               ELSE Put(sprint_map, Item, SprintId(Item) + 10 * cur)
    /\ NextEntity
    /\ UNCHANGED <<stillVars, callVars, user_map, epic_map, issue_map>>

\* IssueMigrator.migrate_issues calls get_label_epic_map(pt_project_id), a
\* name defined only inside the class body: NameError before any story is
\* attempted, which migrate_project turns into LinearMigrationError
LinearIssues ==
    /\ InStage("linear", "issues")
    /\ Raise
    /\ UNCHANGED <<runVars, callVars, sent, failed, mapVars>>

Next ==
    \/ \E sel \in Selections, f \in BOOLEAN, clr \in BOOLEAN,
          setupOk \in BOOLEAN :
          /\ (dest = "linear" => setupOk)
          /\ StartRun(sel, f, clr, setupOk)
    \/ EndRun
    \/ SkipProject
    \/ BeginProject
    \/ StageDone
    \/ JiraWorkspace
    \/ JiraUser
    \/ JiraEpic
    \/ JiraIssue
    \/ JiraLink
    \/ JiraBlockers
    \/ JiraSprint
    \/ JiraAssociateSprint
    \/ JiraComments
    \/ JiraComplete
    \/ LinearTeam
    \/ LinearUser
    \/ LinearEpic
    \/ LinearCycle
    \/ LinearIssues

Spec == Init /\ [][Next]_vars

(***************************************************************************)
(* The blocker functions applied on their own.  The orchestrator stays     *)
(* idle; unit holds the function, its arguments and, once it has been      *)
(* applied (done), its result.                                             *)
(***************************************************************************)
Idle ==
    /\ dest = "jira"
    /\ processedFile = <<>>
    /\ run = 0
    /\ pc = "idle"
    /\ force = FALSE
    /\ selected = {}
    /\ queue = <<>>
    /\ attempted = <<>>
    /\ results = EmptyMap
    /\ unfinished = {}
    /\ lastRun = "none"
    /\ cur = 0
    /\ stage = "none"
    /\ idx = 1
    /\ trace = <<>>
    /\ fileAtEntry = <<>>
    /\ sent = {}
    /\ failed = {}
    /\ nfail = 0
    /\ user_map = EmptyMap
    /\ epic_map = EmptyMap
    /\ issue_map = EmptyMap
    /\ sprint_map = EmptyMap

orchestratorVars ==
    <<dest, processedFile, run, pc, force, selected, queue, attempted, results,
      unfinished, lastRun, cur, stage, idx, trace, fileAtEntry, sent, failed,
      nfail, mapVars>>

\* Blocker.description: the characters the descriptions are made of
Alphabet == {"#", "1", "2", " ", "x"}

Descriptions == UNION {[1..n -> Alphabet] : n \in 0..MaxLen}

InitParse ==
    /\ Idle
    /\ \E d \in Descriptions :
          unit = [fn |-> "parse", description |-> d, done |-> FALSE,
                  result |-> NoRef]

\* blocker_id of process_blockers for one description
ApplyParse ==
    /\ unit.fn = "parse"
    /\ ~unit.done
    /\ unit' = [unit EXCEPT !.done = TRUE,
                            !.result = ParseBlockerId(unit.description)]
    /\ UNCHANGED orchestratorVars

NextParse == ApplyParse

SpecParse == InitParse /\ [][NextParse]_vars

\* "Blocked by #<a> pending review", shortened
BlockedBy(a) == <<"b", " ", "#">> \o IntToStr(a) \o <<" ", "p">>

\* the blockers a story may carry: they name a story of the project, or the
\* story after the last one, or no story at all
UnitStories == 1..StoriesPerProject

UnitBlockers ==
    {[description |-> d, resolved |-> r] :
         d \in {BlockedBy(a) : a \in 1..(StoriesPerProject + 1)} \cup {<<"b">>},
         r \in BOOLEAN}

UnitIssueMaps == {[s \in D |-> IssueKey(s)] : D \in SUBSET UnitStories}

InitBlockers ==
    /\ Idle
    /\ \E fn \in {"process_blockers", "migrate_story_relations"},
          s \in UnitStories, b1 \in UnitBlockers, b2 \in UnitBlockers,
          two \in BOOLEAN, issues \in UnitIssueMaps, fails \in BOOLEAN :
          unit = [fn |-> fn, story |-> s,
                  blockers |-> IF two THEN <<b1, b2>> ELSE <<b1>>,
                  issues |-> issues, fails |-> fails, done |-> FALSE,
                  result |-> [links |-> <<>>, raised |-> FALSE]]

\* jira: process_blockers for one story; a link call that raises is logged
ApplyProcessBlockers ==
    /\ unit.fn = "process_blockers"
    /\ ~unit.done
    /\ unit' = [unit EXCEPT !.done = TRUE, !.result =
                   [links |-> JiraBlockerLinks(unit.story, unit.blockers,
                                               unit.issues),
                    raised |-> FALSE]]
    /\ UNCHANGED orchestratorVars

\* linear: migrate_story_relations for one story
ApplyStoryRelations ==
    /\ unit.fn = "migrate_story_relations"
    /\ ~unit.done
    /\ unit' = [unit EXCEPT !.done = TRUE, !.result =
                   LinearStoryRelations(unit.story, unit.blockers, unit.issues,
                                        unit.fails)]
    /\ UNCHANGED orchestratorVars

NextBlockers == ApplyProcessBlockers \/ ApplyStoryRelations

SpecBlockers == InitBlockers /\ [][NextBlockers]_vars

(***************************************************************************)
(* api.py: RateLimiter, as PivotalTrackerAPI builds it.  Time and the      *)
(* allowance are counted in 1/Scale of a second and of a token, so that    *)
(* the float arithmetic of acquire() is exact for MaxAcquires calls.       *)
(* acquire() is a coroutine: callers may enter it while others sleep.      *)
(***************************************************************************)
LimiterRate == 6

LimiterInterval == 5

Scale == 2 * 5 ^ MaxAcquires

\* the spacing of the arrivals: half a second, less than interval / rate
Gap == Scale \div 2

\* "self.allowance += time_passed * (self.rate / self.interval)", capped at
\* self.rate
Refill(allowance, time_passed) ==
    LET a == allowance + (time_passed * LimiterRate) \div LimiterInterval
    IN  IF a > LimiterRate * Scale THEN LimiterRate * Scale ELSE a

\* "await asyncio.sleep(1 - self.allowance)": the time slept
SleepTime(allowance) == Scale - allowance

NotYet == -1

InitLimiter ==
    /\ Idle
    /\ unit = [fn |-> "acquire", done |-> FALSE, now |-> 0,
               allowance |-> LimiterRate * Scale, last_check |-> 0,
               calls |-> <<>>, spaced |-> TRUE]

Sleepers == {i \in DOMAIN unit.calls : unit.calls[i].completed = NotYet}

\* acquire() up to its await: the allowance is refilled; with a token left
\* the call takes it and returns, otherwise it goes to sleep
AcquireEnter ==
    /\ unit.fn = "acquire"
    /\ Len(unit.calls) < MaxAcquires
    /\ \A i \in Sleepers : unit.calls[i].wake > unit.now
    /\ LET time_passed == unit.now - unit.last_check
           allowance == Refill(unit.allowance, time_passed)
           sleeps == allowance < Scale
           prev == IF unit.calls = <<>> THEN unit.now
                   ELSE unit.calls[Len(unit.calls)].entered
           call == [entered |-> unit.now,
                    wake |-> IF sleeps THEN unit.now + SleepTime(allowance)
                             ELSE unit.now,
                    completed |-> IF sleeps THEN NotYet ELSE unit.now,
                    accrued |-> allowance,
                    left |-> IF sleeps THEN NotYet ELSE allowance - Scale]
       IN  unit' = [unit EXCEPT
                       !.done = TRUE,
                       !.last_check = unit.now,
                       !.allowance = IF sleeps THEN allowance
                                     ELSE allowance - Scale,
                       !.calls = Append(unit.calls, call),
                       !.spaced = unit.spaced
                           /\ (unit.now - prev) * LimiterRate
                                  < LimiterInterval * Scale]
    /\ UNCHANGED orchestratorVars

AfterSleepKeeps(allowance) == allowance

\* "self.allowance = 0" after the sleep
AfterSleep(allowance) == 0

\* the sleep of call i is over: "self.allowance = 0", acquire() returns
AcquireWake ==
    /\ unit.fn = "acquire"
    /\ \E i \in Sleepers :
          /\ unit.calls[i].wake = unit.now
          /\ unit' = [unit EXCEPT !.allowance = AfterSleep(unit.allowance),
                                  !.calls[i].completed = unit.now,
                                  !.calls[i].left = AfterSleep(unit.allowance)]
    /\ UNCHANGED orchestratorVars

\* time passes: to the next arrival, or to the end of the next sleep
LimiterTime ==
    /\ unit.fn = "acquire"
    /\ \A i \in Sleepers : unit.calls[i].wake > unit.now
    /\ \E t \in {unit.now + Gap} \cup {unit.calls[i].wake : i \in Sleepers} :
          /\ \A i \in Sleepers : t <= unit.calls[i].wake
          /\ (t = unit.now + Gap /\ \A i \in Sleepers : unit.calls[i].wake # t)
                => /\ unit.calls # <<>>
                   /\ unit.calls[Len(unit.calls)].entered = unit.now
                   /\ Len(unit.calls) < MaxAcquires
          /\ unit' = [unit EXCEPT !.now = t]
    /\ UNCHANGED orchestratorVars

NextLimiter == AcquireEnter \/ AcquireWake \/ LimiterTime

SpecLimiter == InitLimiter /\ [][NextLimiter]_vars

\* asyncio.sleep returns when its time has come, and the event loop resumes
\* the coroutine that waited for it
SpecLimiterLive ==
    /\ InitLimiter
    /\ [][NextLimiter]_vars
    /\ WF_vars(AcquireWake)
    /\ WF_vars(LimiterTime)

(***************************************************************************)
(* One call of a client against a remote whose answers are given:          *)
(* JiraAPI._request, LinearAPI.execute_query under retry_async, and        *)
(* PivotalTrackerAPI._request.  Time is counted in half seconds.           *)
(***************************************************************************)
MAX_RETRIES == 3

LinearMaxRetries == 3

LinearDelay == 1

\* a request that ends in aiohttp.ClientError without an HTTP status
ConnError == 0

Statuses == {200, 404, 429, 500, ConnError}

\* no Retry-After header in the response
NoHeader == -1

RetryAfters == {NoHeader, 1, 2}

\* Config.RATE_LIMIT_PAUSE = float(os.getenv(...)): 0.5 s, 1.0 s, 1.5 s
Pauses == {1, 2, 3}

Remotes == [1 .. MAX_RETRIES -> Statuses]

\* int(x) of a float given in half seconds, as half seconds
PyIntOfFloat(halves) == 2 * (halves \div 2)

\* "int(e.headers.get('Retry-After', Config.RATE_LIMIT_PAUSE))" as half seconds
RetryAfter(header, pause) ==
    IF header = NoHeader THEN PyIntOfFloat(pause) ELSE 2 * header

\* "delay * (2 ** (retries - 1))" as half seconds
Backoff(retries) == 2 * LinearDelay * 2 ^ (retries - 1)

\* "status_code=None", the default of JiraAPIError.__init__
NoStatus == -1

\* the status_code of "JiraAPIError(f'HTTP Error: {e.status}, ...')": the
\* status is part of the message only
JiraErrorStatus(status) == NoStatus

InitRequest ==
    /\ Idle
    /\ \E c \in {"jira", "linear", "pivotal"}, r \in Remotes,
          h \in RetryAfters, p \in Pauses :
          unit = [fn |-> "request", done |-> FALSE, client |-> c,
                  responses |-> r, header |-> h, pause |-> p,
                  attempt |-> 0, waited |-> 0, delays |-> <<>>,
                  acquires |-> 0, outcome |-> "running",
                  status_code |-> NoStatus, get_user |-> "pending"]

Requesting(c) ==
    /\ unit.fn = "request"
    /\ unit.client = c
    /\ unit.outcome = "running"

Response == unit.responses[unit.attempt + 1]

Finish(o) ==
    unit' = [unit EXCEPT !.done = TRUE, !.attempt = unit.attempt + 1,
                         !.outcome = o]

\* one pass of "for attempt in range(Config.MAX_RETRIES)"; the loop left
\* without a return raises RateLimitError
JiraRequest ==
    /\ Requesting("jira")
    /\ unit.attempt < MAX_RETRIES
    /\ LET last == unit.attempt = MAX_RETRIES - 1
       IN  CASE Response = ConnError ->
                    IF last THEN Finish("JiraAPIError")
                    ELSE unit' = [unit EXCEPT
                                     !.attempt = unit.attempt + 1,
                                     !.waited = unit.waited + unit.pause,
                                     !.delays = Append(unit.delays, unit.pause)]
             [] Response = 429 ->
                    unit' = [unit EXCEPT
                                !.attempt = unit.attempt + 1,
                                !.waited = unit.waited
                                    + RetryAfter(unit.header, unit.pause),
                                !.delays = Append(unit.delays,
                                    RetryAfter(unit.header, unit.pause)),
                                !.done = last,
                                !.outcome = IF last THEN "RateLimitError"
                                            ELSE "running"]
             [] Response >= 400 /\ Response # 429 ->
                    unit' = [unit EXCEPT
                                !.done = TRUE,
                                !.attempt = unit.attempt + 1,
                                !.outcome = "JiraAPIError",
                                !.status_code = JiraErrorStatus(Response)]
             [] OTHER -> Finish("ok")
    /\ UNCHANGED orchestratorVars

\* one pass of the loop of retry_async around execute_query
LinearRequest ==
    /\ Requesting("linear")
    /\ unit.attempt < LinearMaxRetries
    /\ LET retries == unit.attempt + 1
       IN  IF Response = 200 THEN Finish("ok")
           ELSE IF retries = LinearMaxRetries THEN Finish("LinearAPIError")
           ELSE unit' = [unit EXCEPT !.attempt = retries,
                                     !.waited = unit.waited + Backoff(retries),
                                     !.delays = Append(unit.delays,
                                                       Backoff(retries))]
    /\ UNCHANGED orchestratorVars

\* "await self.rate_limiter.acquire()" has returned
Acquired(o) ==
    unit' = [unit EXCEPT !.done = TRUE, !.attempt = unit.attempt + 1,
                         !.acquires = unit.acquires + 1, !.outcome = o]

\* PivotalTrackerAPI._request: the limiter, then raise_for_status, no loop
PivotalRequest ==
    /\ Requesting("pivotal")
    /\ unit.attempt = 0
    /\ CASE Response = ConnError -> Acquired("ClientError")
         [] Response >= 400 -> Acquired("APIError")
         [] OTHER -> Acquired("ok")
    /\ UNCHANGED orchestratorVars

\* JiraAPI.get_user around _request: "except JiraAPIError as e", which
\* RateLimitError is a subclass of
JiraGetUser ==
    /\ unit.fn = "request"
    /\ unit.client = "jira"
    /\ unit.done
    /\ unit.get_user = "pending"
    /\ unit' = [unit EXCEPT
                   !.get_user = IF unit.outcome = "ok" THEN "returned"
                                ELSE IF unit.status_code = 404 THEN "none"
                                ELSE "raised"]
    /\ UNCHANGED orchestratorVars

NextRequest == JiraRequest \/ LinearRequest \/ PivotalRequest \/ JiraGetUser

SpecRequest == InitRequest /\ [][NextRequest]_vars

(***************************************************************************)
(* api.py: PivotalTrackerAPI._paginate against an endpoint that holds      *)
(* `total` items, numbered 1 .. total, and serves them by offset and       *)
(* limit; an endpoint may also answer with a single object, and a request  *)
(* may fail.                                                               *)
(***************************************************************************)
PageLimit == 100

\* the pages a call can need, and one more
MaxPages == MaxItems \div PageLimit + 2

Min(a, b) == IF a < b THEN a ELSE b

\* the answer of the list endpoint to "offset", "limit"
Page(total, offset, limit) ==
    [i \in 1 .. (Min(offset + limit, total) - Min(offset, total)) |-> offset + i]

LastPageOrFull(items, limit) == Len(items) <= limit

\* "if len(items) < params['limit']: break"
LastPage(items, limit) == Len(items) < limit

\* the endpoints: "list" serves its items by offset and limit; "object"
\* does so until its request number objectAt, which it answers with a single
\* object; "endless" answers every request with a full page
InitPaginate ==
    /\ Idle
    /\ \E n \in 0 .. MaxItems, k \in {"list", "object", "endless"},
          o \in 0 .. MaxPages, f \in 0 .. MaxPages :
          /\ (k = "object") <=> (o > 0)
          /\ unit = [fn |-> "paginate", done |-> FALSE, total |-> n, kind |-> k,
                     objectAt |-> o, failAt |-> f, limit |-> PageLimit,
                     offset |-> 0, all_items |-> <<>>, offsets |-> <<>>,
                     outcome |-> "running",
                     result |-> [kind |-> "none", value |-> <<>>]]

NonListExtends(all_items, obj) ==
    [kind |-> "list", value |-> Append(all_items, obj)]

\* "else: pbar.close(); return items"
NonList(all_items, obj) == [kind |-> "object", value |-> <<obj>>]

\* one pass of "while True": a request, then extend and break or go on
PaginateRequest ==
    /\ unit.fn = "paginate"
    /\ unit.outcome = "running"
    /\ Len(unit.offsets) < MaxPages
    /\ LET offsets == Append(unit.offsets, unit.offset)
           items == IF unit.kind = "endless" THEN Page(unit.limit, 0, unit.limit)
                    ELSE Page(unit.total, unit.offset, unit.limit)
       IN  IF Len(offsets) = unit.failAt
           THEN unit' = [unit EXCEPT !.done = TRUE, !.offsets = offsets,
                                     !.outcome = "APIError"]
           ELSE IF Len(offsets) = unit.objectAt
           THEN unit' = [unit EXCEPT !.done = TRUE, !.offsets = offsets,
                                     !.outcome = "object",
                                     !.result = NonList(unit.all_items, 0)]
           ELSE IF LastPage(items, unit.limit)
           THEN unit' = [unit EXCEPT !.done = TRUE, !.offsets = offsets,
                                     !.all_items = unit.all_items \o items,
                                     !.outcome = "list",
                                     !.result = [kind |-> "list",
                                                 value |-> unit.all_items \o items]]
           ELSE unit' = [unit EXCEPT !.offsets = offsets,
                                     !.all_items = unit.all_items \o items,
                                     !.offset = unit.offset + unit.limit]
    /\ UNCHANGED orchestratorVars

NextPaginate == PaginateRequest

SpecPaginate == InitPaginate /\ [][NextPaginate]_vars

(***************************************************************************)
(* The admission pools: PivotalTrackerAPI.global_semaphore around _request *)
(* and download_file, LinearAPI.semaphore around execute_query.  Each      *)
(* caller is a coroutine on the one client instance.                       *)
(***************************************************************************)
PivotalPool == 4

MAX_CONCURRENT_REQUESTS == 5

PoolSize(client) ==
    IF client = "pivotal" THEN PivotalPool ELSE MAX_CONCURRENT_REQUESTS

Methods(client) ==
    IF client = "pivotal" THEN {"_request", "download_file"}
    ELSE {"execute_query"}

Callers == 1 .. MaxCallers

InitPool ==
    /\ Idle
    /\ \E c \in {"pivotal", "linear"} :
          unit = [fn |-> "pool", done |-> FALSE, client |-> c,
                  value |-> PoolSize(c),
                  at |-> [i \in Callers |-> "idle"],
                  op |-> [i \in Callers |-> "none"],
                  raised |-> FALSE]

\* a coroutine calls a method of the client and reaches "async with"
PoolCall(i) ==
    /\ unit.fn = "pool"
    /\ unit.at[i] = "idle"
    /\ \E m \in Methods(unit.client) :
          unit' = [unit EXCEPT !.at[i] = "waiting", !.op[i] = m]
    /\ UNCHANGED orchestratorVars

\* Semaphore.__aenter__: a permit is taken; the Pivotal Tracker methods go
\* through the rate limiter before they send
PoolAcquire(i) ==
    /\ unit.fn = "pool"
    /\ unit.at[i] = "waiting"
    /\ unit.value > 0
    /\ unit' = [unit EXCEPT
                   !.value = unit.value - 1,
                   !.at[i] = IF unit.client = "pivotal" THEN "limiter"
                             ELSE "in_flight"]
    /\ UNCHANGED orchestratorVars

\* "await self.rate_limiter.acquire()" returns, the request is sent
PoolSend(i) ==
    /\ unit.fn = "pool"
    /\ unit.at[i] = "limiter"
    /\ unit' = [unit EXCEPT !.at[i] = "in_flight"]
    /\ UNCHANGED orchestratorVars

ReleaseLost(value) == value

\* Semaphore.__aexit__ when the body raised
ReleaseOnError(value) == value + 1

\* the request ends, with a response or with an exception; the "async with"
\* block is left either way
PoolRespond(i, ok) ==
    /\ unit.fn = "pool"
    /\ unit.at[i] = "in_flight"
    /\ unit' = [unit EXCEPT
                   !.done = TRUE,
                   !.value = IF ok THEN unit.value + 1
                             ELSE ReleaseOnError(unit.value),
                   !.at[i] = "idle",
                   !.op[i] = "none",
                   !.raised = unit.raised \/ ~ok]
    /\ UNCHANGED orchestratorVars

NextPool ==
    \E i \in Callers :
        \/ PoolCall(i)
        \/ PoolAcquire(i)
        \/ PoolSend(i)
        \/ \E ok \in BOOLEAN : PoolRespond(i, ok)

SpecPool == InitPool /\ [][NextPool]_vars

(***************************************************************************)
(* The comment migrators applied to one comment of a story, with the calls *)
(* in the order they are sent.  An attachment whose file is not under the  *)
(* attachments directory is never sent.                                    *)
(***************************************************************************)
RECURSIVE LinearAttachmentSteps(_, _)
LinearAttachmentSteps(s, atts) ==
    IF atts = <<>> THEN <<>>
    ELSE <<Step(Call("create_attachment", s, Head(atts)), FALSE)>>
         \o LinearAttachmentSteps(s, Tail(atts))

\* linear migrate_comment: the comment, then migrate_attachments, which
\* catches the failure of each attachment
LinearCommentSteps(s, comment) ==
    <<Step(Call("create_comment", s, comment.id), TRUE)>>
    \o LinearAttachmentSteps(s, comment.attachments)

\* the calls sent, in order; "absent" are the attachments without a file
RECURSIVE RunInOrder(_, _, _)
RunInOrder(cs, absent, F) ==
    IF cs = <<>> THEN [calls |-> <<>>, raised |-> FALSE]
    ELSE LET h == Head(cs)
             gone == h.c.other \in absent
             rest == RunInOrder(Tail(cs), absent, F)
         IN  IF gone
             THEN IF h.fatal THEN [calls |-> <<>>, raised |-> TRUE] ELSE rest
             ELSE IF h.c \in F /\ h.fatal
             THEN [calls |-> <<h.c>>, raised |-> TRUE]
             ELSE [calls |-> <<h.c>> \o rest.calls, raised |-> rest.raised]

UnitStory == 1

UnitComments ==
    {[id |-> 10 * UnitStory + 1,
      attachments |-> [i \in 1 .. n |-> 100 * UnitStory + i]] :
         n \in 0 .. MaxAttachments}

CommentSteps(d, s, comment) ==
    IF d = "jira" THEN JiraCommentSteps(s, comment)
    ELSE LinearCommentSteps(s, comment)

InitComments ==
    /\ Idle
    /\ \E d \in {"jira", "linear"}, c \in UnitComments :
          \E absent \in SUBSET Range(c.attachments),
             F \in SUBSET {st.c : st \in Range(CommentSteps(d, UnitStory, c))} :
             unit = [fn |-> "migrate_comments", done |-> FALSE, dest |-> d,
                     comment |-> c, absent |-> absent, F |-> F,
                     calls |-> <<>>, migrated |-> FALSE]

\* jira migrate_comments, for the one comment
ApplyJiraComments ==
    /\ unit.fn = "migrate_comments"
    /\ unit.dest = "jira"
    /\ ~unit.done
    /\ LET r == RunInOrder(JiraCommentSteps(UnitStory, unit.comment),
                           unit.absent, unit.F)
       IN  unit' = [unit EXCEPT !.done = TRUE, !.calls = r.calls,
                                !.migrated = ~r.raised]
    /\ UNCHANGED orchestratorVars

\* linear migrate_comments, for the one comment
ApplyLinearComments ==
    /\ unit.fn = "migrate_comments"
    /\ unit.dest = "linear"
    /\ ~unit.done
    /\ LET r == RunInOrder(LinearCommentSteps(UnitStory, unit.comment),
                           unit.absent, unit.F)
       IN  unit' = [unit EXCEPT !.done = TRUE, !.calls = r.calls,
                                !.migrated = ~r.raised]
    /\ UNCHANGED orchestratorVars

NextComments == ApplyJiraComments \/ ApplyLinearComments

SpecComments == InitComments /\ [][NextComments]_vars

(***************************************************************************)
(* The ID-mappings of a run.  migrate_issues of either destination fills a *)
(* dict of the process, story by story; the process may stop at any point, *)
(* and a new process builds its migrators anew.                            *)
(***************************************************************************)
LinearIssueSteps(s) ==
    <<Step(Call("create_issue", s, 0), TRUE)>>
    \o [i \in DOMAIN StoryTasks(s) |->
           Step(Call("create_sub_issue", s, StoryTasks(s)[i].id), FALSE)]

MigrateIssueSteps(d, s) ==
    IF d = "jira" THEN JiraIssueSteps(s) ELSE LinearIssueSteps(s)

\* "self.issue_map = {}", "migrated_issues = {}": the mapping a process
\* starts with
Recovered == EmptyMap

InitCrash ==
    /\ Idle
    /\ \E d \in {"jira", "linear"} :
          unit = [fn |-> "migrate_issues", done |-> FALSE, dest |-> d,
                  todo |-> SetToSeq(AllStories), issue_map |-> EmptyMap,
                  created |-> {}, crashed |-> FALSE]

\* one pass of the loop of migrate_issues: migrate_issue, then the entry
MigrateIssuesPass ==
    /\ unit.fn = "migrate_issues"
    /\ ~unit.crashed
    /\ unit.todo # <<>>
    /\ LET s == Head(unit.todo)
       IN  \E F \in SUBSET {st.c : st \in Range(MigrateIssueSteps(unit.dest, s))} :
              LET r == RunCalls(MigrateIssueSteps(unit.dest, s), F)
                  made == Call("create_issue", s, 0) \in r.sent \ F
              IN  unit' = [unit EXCEPT
                              !.done = TRUE,
                              !.todo = Tail(unit.todo),
                              !.created = IF made THEN unit.created \cup {s}
                                          ELSE unit.created,
                              !.issue_map = IF r.raised THEN unit.issue_map
                                            ELSE Put(unit.issue_map, s,
                                                     IssueKey(s))]
    /\ UNCHANGED orchestratorVars

\* the process stops; what the next process knows is what it starts with
Crash ==
    /\ unit.fn = "migrate_issues"
    /\ ~unit.crashed
    /\ unit' = [unit EXCEPT !.crashed = TRUE, !.issue_map = Recovered]
    /\ UNCHANGED orchestratorVars

NextCrash == MigrateIssuesPass \/ Crash

SpecCrash == InitCrash /\ [][NextCrash]_vars

(***************************************************************************)
(* linear/migrators/cycle_migrator.py: the one CycleMigrator of a run,     *)
(* called for each project in turn; every project numbers its iterations   *)
(* from 1.                                                                 *)
(***************************************************************************)
CycleId(p, n) == SprintId(n) + 10 * p

InitCycles ==
    /\ Idle
    /\ \E its \in [ProjectIds -> 0 .. MaxIterations] :
          unit = [fn |-> "migrate_cycles", done |-> FALSE, iterations |-> its,
                  project |-> 1, number |-> 1, cycle_map |-> EmptyMap,
                  asked |-> 0, found |-> 0]

\* one pass of the loop of migrate_cycles: "except CycleMigrationError"
\* logs and continues
MigrateCyclesPass(ok) ==
    /\ unit.fn = "migrate_cycles"
    /\ unit.project \in ProjectIds
    /\ unit.number <= unit.iterations[unit.project]
    /\ unit' = [unit EXCEPT
                   !.done = TRUE,
                   !.number = unit.number + 1,
                   !.cycle_map = IF ok
                                 THEN Put(unit.cycle_map, unit.number,
                                          CycleId(unit.project, unit.number))
                                 ELSE unit.cycle_map]
    /\ UNCHANGED orchestratorVars

\* migrate_cycles returns; run() goes on to the next project
MigrateCyclesReturn ==
    /\ unit.fn = "migrate_cycles"
    /\ unit.project \in ProjectIds
    /\ unit.number > unit.iterations[unit.project]
    /\ unit' = [unit EXCEPT !.project = unit.project + 1, !.number = 1,
                            !.asked = 0, !.found = 0]
    /\ UNCHANGED orchestratorVars

\* get_linear_cycle(pt_story.iteration.number), as migrate_issue asks for a
\* story of the project whose cycles have just been migrated:
\* "self.cycle_map.get(pt_iteration_number)", 0 for None
GetLinearCycle(n) ==
    /\ unit.fn = "migrate_cycles"
    /\ unit.project \in ProjectIds
    /\ unit.number > unit.iterations[unit.project]
    /\ n \in 1 .. unit.iterations[unit.project]
    /\ unit' = [unit EXCEPT
                   !.asked = n,
                   !.found = IF n \in DOMAIN unit.cycle_map
                             THEN unit.cycle_map[n] ELSE 0]
    /\ UNCHANGED orchestratorVars

NextCycles ==
    \/ \E ok \in BOOLEAN : MigrateCyclesPass(ok)
    \/ MigrateCyclesReturn
    \/ \E n \in 1 .. MaxIterations : GetLinearCycle(n)

SpecCycles == InitCycles /\ [][NextCycles]_vars

(***************************************************************************)
(* The processed-project stores on their own: utils.py (read by etl.py and *)
(* cli.py), jira/utils.py and linear/utils.py.  A store is a file of one   *)
(* id per line, which may not exist.                                       *)
(***************************************************************************)
StoreNames == {"etl", "jira", "linear"}

\* the "project_id in ..." test of the caller of each store; utils.py reads
\* the lines as jira/utils.py does
StoreHas(st, file, id) ==
    IsProcessed(IF st = "linear" THEN "linear" ELSE "jira", file, id)

InitStore ==
    /\ Idle
    /\ \E st \in StoreNames :
          unit = [fn |-> "store", done |-> FALSE, store |-> st,
                  exists |-> FALSE, file |-> <<>>, marked |-> {},
                  cleared |-> FALSE]

\* mark_project_as_processed / mark_project_as_imported /
\* mark_team_as_processed: open(..., "a") creates the file
StoreMark(id) ==
    /\ unit.fn = "store"
    /\ Len(unit.file) < MaxMarks
    /\ unit' = [unit EXCEPT !.done = TRUE, !.exists = TRUE,
                            !.file = MarkProcessed(unit.file, id),
                            !.marked = unit.marked \cup {id},
                            !.cleared = FALSE]
    /\ UNCHANGED orchestratorVars

\* clear_...: "if os.path.exists(FILE): os.remove(FILE)"
StoreClear ==
    /\ unit.fn = "store"
    /\ unit' = [unit EXCEPT !.done = TRUE, !.exists = FALSE, !.file = <<>>,
                            !.marked = {}, !.cleared = TRUE]
    /\ UNCHANGED orchestratorVars

NextStore == (\E id \in ProjectIds : StoreMark(id)) \/ StoreClear

SpecStore == InitStore /\ [][NextStore]_vars

(***************************************************************************)
(* The workspace stage over successive migrate_project calls: entry (read  *)
(* the processed file, skip or go on), ProjectMigrator.migrate /           *)
(* TeamMigrator.migrate_team up to the created workspace, and the outcome  *)
(* of the stages after it.  "teams" counts the workspaces the destination  *)
(* holds per source project.                                               *)
(***************************************************************************)
WorkspaceCall(d, p) ==
    Call(IF d = "jira" THEN "create_project" ELSE "create_team", p, 0)

InitWorkspace ==
    /\ Idle
    /\ \E d \in {"jira", "linear"} :
          unit = [fn |-> "workspace", done |-> FALSE, dest |-> d, file |-> <<>>,
                  calls |-> 0, project |-> 0, force |-> FALSE,
                  phase |-> "idle", before |-> 0, create_sent |-> FALSE,
                  teams |-> [p \in ProjectIds |-> 0]]

\* migrate_project(p, force): skipped when p passes the processed test and
\* force is not set; otherwise the workspace is created first
WorkspaceEnter(p, f, ok) ==
    /\ unit.fn = "workspace"
    /\ unit.phase = "idle"
    /\ unit.calls < MaxRuns * NumProjects
    /\ LET skip == IsProcessed(unit.dest, unit.file, p) /\ ~f
           F == IF ok THEN {} ELSE {WorkspaceCall(unit.dest, p)}
           r == IF unit.dest = "jira" THEN JiraMigrateWorkspace(p, F)
                ELSE LinearMigrateTeam(p, F)
           sends == ~skip /\ WorkspaceCall(unit.dest, p) \in r.sent
       IN  /\ skip => ok
           /\ unit' = [unit EXCEPT
                          !.done = TRUE,
                          !.calls = unit.calls + 1,
                          !.project = p,
                          !.force = f,
                          !.before = unit.teams[p],
                          !.create_sent = sends,
                          !.teams[p] = IF sends /\ ok THEN unit.teams[p] + 1
                                       ELSE unit.teams[p],
                          !.phase = IF skip \/ r.raised THEN "idle" ELSE "rest"]
    /\ UNCHANGED orchestratorVars

\* a later stage raises: the call ends and the file is left as it is
WorkspaceRaise ==
    /\ unit.fn = "workspace"
    /\ unit.phase = "rest"
    /\ unit' = [unit EXCEPT !.phase = "idle",
                            !.file = FileOnError(unit.file, unit.project)]
    /\ UNCHANGED orchestratorVars

\* jira: the stages after the workspace pass and the project is marked;
\* linear never gets past migrate_issues
WorkspaceComplete ==
    /\ unit.fn = "workspace"
    /\ unit.phase = "rest"
    /\ unit.dest = "jira"
    /\ unit' = [unit EXCEPT !.phase = "idle",
                            !.file = MarkProcessed(unit.file, unit.project)]
    /\ UNCHANGED orchestratorVars

NextWorkspace ==
    \/ \E p \in ProjectIds, f \in BOOLEAN, ok \in BOOLEAN :
          WorkspaceEnter(p, f, ok)
    \/ WorkspaceRaise
    \/ WorkspaceComplete

SpecWorkspace == InitWorkspace /\ [][NextWorkspace]_vars

(***************************************************************************)
(* migrate_comments over the comments of one story, as the caller hands    *)
(* them over: a list in source order, whose ids need not be ascending.     *)
(* Comments with an odd id carry one attachment.                           *)
(***************************************************************************)
CommentOf(k) ==
    [id |-> 10 * UnitStory + k,
     attachments |-> IF k % 2 = 1 THEN <<100 * UnitStory + k>> ELSE <<>>]

\* the lists of distinct comments
CommentLists ==
    {[i \in DOMAIN ks |-> CommentOf(ks[i])] :
        ks \in {q \in UNION {[1 .. n -> 1 .. MaxComments] : n \in 0 .. MaxComments} :
                   \A i, j \in DOMAIN q : i # j => q[i] # q[j]}}

ListCalls(d, comments) ==
    UNION {{st.c : st \in Range(CommentSteps(d, UnitStory, comments[i]))} :
              i \in DOMAIN comments}

InitCommentList ==
    /\ Idle
    /\ \E d \in {"jira", "linear"}, cs \in CommentLists :
          \E F \in SUBSET ListCalls(d, cs),
             absent \in SUBSET UNION {Range(cs[i].attachments) : i \in DOMAIN cs} :
             /\ Cardinality(F) + Cardinality(absent) <= MaxFailures + 1
             /\ unit = [fn |-> "comment_list", done |-> FALSE, dest |-> d,
                        comments |-> cs, todo |-> cs, absent |-> absent,
                        F |-> F, calls |-> <<>>, migrated_comments |-> <<>>]

AbandonComments(todo) == <<>>

\* "except CommentMigrationError": logged, "Continue with the next comment"
AfterCommentError(todo) == Tail(todo)

\* one pass of "for pt_comment in pt_comments"
MigrateCommentsPass ==
    /\ unit.fn = "comment_list"
    /\ unit.todo # <<>>
    /\ LET c == Head(unit.todo)
           r == RunInOrder(CommentSteps(unit.dest, UnitStory, c),
                           unit.absent, unit.F)
       IN  unit' = [unit EXCEPT
                       !.done = TRUE,
                       !.calls = unit.calls \o r.calls,
                       !.migrated_comments =
                           IF r.raised THEN unit.migrated_comments
                           ELSE Append(unit.migrated_comments, c.id),
                       !.todo = IF r.raised THEN AfterCommentError(unit.todo)
                                ELSE Tail(unit.todo)]
    /\ UNCHANGED orchestratorVars

NextCommentList == MigrateCommentsPass

SpecCommentList == InitCommentList /\ [][NextCommentList]_vars

(***************************************************************************)
(* etl.py: extract_and_load_project for one project.  The story tasks are  *)
(* alike, so the state keeps how many of them are at each place of         *)
(* process_story: "new" (task created, not yet past story_semaphore),      *)
(* "want_c" (about to call c of the client), "in_c" (inside _request or    *)
(* download_file for c, past global_semaphore), "finished", "raised".      *)
(* The tasks are followed for as long as the call that created them runs.  *)
(***************************************************************************)
STORY_SEMAPHORE == 8

EtlProject == 1

\* the calls of process_story, in the order of its awaits
StoryCalls == <<"tasks", "comments", "attachment", "blockers">>

Want(c) == "want_" \o c

In(c) == "in_" \o c

Places ==
    {"new", "finished", "raised"}
    \cup {Want(StoryCalls[i]) : i \in DOMAIN StoryCalls}
    \cup {In(StoryCalls[i]) : i \in DOMAIN StoryCalls}

RECURSIVE Sum(_, _)
Sum(f, S) ==
    IF S = {} THEN 0
    ELSE LET x == CHOOSE y \in S : TRUE IN f[x] + Sum(f, S \ {x})

\* story tasks inside "async with story_semaphore"
Processing(at) == Sum(at, Places \ {"new", "finished", "raised"})

\* requests inside "async with self.global_semaphore"
InRequest(at) == Sum(at, {In(StoryCalls[i]) : i \in DOMAIN StoryCalls})

NoStories == [p \in Places |-> 0]

Move(at, from, to) ==
    [at EXCEPT ![from] = at[from] - 1, ![to] = at[to] + 1]

InitEtl ==
    /\ Idle
    /\ \E n \in {0, 2, MaxStories} :
          unit = [fn |-> "etl", done |-> FALSE, stories |-> n, file |-> <<>>,
                  call |-> "none", force |-> FALSE, main |-> "idle",
                  at |-> NoStories, outcome |-> "none", committed |-> FALSE,
                  before |-> <<>>, previous |-> "none"]

InEtl(m) == unit.fn = "etl" /\ unit.main = m

\* extract_and_load_project(project_data, force_update) is called: a first
\* call and, after it has returned, a later one
EtlEnter(f) ==
    /\ unit.fn = "etl"
    /\ unit.main \in {"idle", "returned"}
    /\ unit.call # "later"
    /\ unit' = [unit EXCEPT
                   !.call = IF unit.call = "none" THEN "first" ELSE "later",
                   !.force = f,
                   !.before = unit.file, !.at = NoStories,
                   !.previous = IF unit.at["raised"] > 0 THEN "story raised"
                                ELSE unit.outcome,
                   !.committed = FALSE, !.done = FALSE,
                   !.outcome = IF StoreHas("etl", unit.file, EtlProject) /\ ~f
                               THEN "skipped" ELSE "none",
                   !.main = IF StoreHas("etl", unit.file, EtlProject) /\ ~f
                            THEN "returned" ELSE "prelude"]
    /\ UNCHANGED orchestratorVars

\* "except Exception as e: print(...)": the call returns, nothing is marked
EtlError == [unit EXCEPT !.main = "returned", !.outcome = "error",
                         !.done = TRUE]

\* velocity, stories, labels, epics, memberships, iterations, then the story
\* tasks are created
EtlPrelude(ok) ==
    /\ InEtl("prelude")
    /\ unit' = IF ok
               THEN [unit EXCEPT !.main = "gather",
                                 !.at = [NoStories EXCEPT !["new"] = unit.stories]]
               ELSE EtlError
    /\ UNCHANGED orchestratorVars

StoryPermitAlways(at) == TRUE

\* asyncio.Semaphore(8): a permit is free
StoryPermit(at) == Processing(at) < STORY_SEMAPHORE

\* a task passes "async with story_semaphore"; add_or_update of the story
\* may fail, which process_story prints before it returns
StoryStart(ok) ==
    /\ InEtl("gather")
    /\ unit.at["new"] > 0
    /\ StoryPermit(unit.at)
    /\ unit' = [unit EXCEPT
                   !.at = Move(unit.at, "new",
                               IF ok THEN Want("tasks") ELSE "finished")]
    /\ UNCHANGED orchestratorVars

\* a story task passes "async with self.global_semaphore" for its call c
ClientAdmit(c) ==
    /\ InEtl("gather")
    /\ unit.at[Want(c)] > 0
    /\ InRequest(unit.at) < PivotalPool
    /\ unit' = [unit EXCEPT !.at = Move(unit.at, Want(c), In(c))]
    /\ UNCHANGED orchestratorVars

\* where process_story goes after call c; "more": an attachment is left
AfterCall(c, more) ==
    CASE c = "tasks" -> Want("comments")
      [] c \in {"comments", "attachment"} ->
             IF more THEN Want("attachment") ELSE Want("blockers")
      [] OTHER -> "finished"

\* the request of call c ends: both permits are released on an error
ClientReturn(c, ok, more) ==
    /\ InEtl("gather")
    /\ unit.at[In(c)] > 0
    /\ unit' = [unit EXCEPT
                   !.at = Move(unit.at, In(c),
                               IF ok THEN AfterCall(c, more) ELSE "raised")]
    /\ UNCHANGED orchestratorVars

\* mark_project_as_processed(project_id), "Successfully processed project"
EtlMarked ==
    [unit EXCEPT !.main = "returned", !.outcome = "marked", !.done = TRUE,
                 !.committed = TRUE,
                 !.file = MarkProcessed(unit.file, EtlProject)]

\* the exception of gather leaves the "with" blocks and reaches the handler
AfterGatherError == EtlError

\* "await asyncio.gather(*story_tasks)" raises the first exception of a task
\* while the other tasks go on
EtlGatherRaises ==
    /\ InEtl("gather")
    /\ unit.at["raised"] > 0
    /\ unit' = AfterGatherError
    /\ UNCHANGED orchestratorVars

\* gather returns, db.commit(), then mark_project_as_processed(project_id)
EtlCommit(ok) ==
    /\ InEtl("gather")
    /\ unit.at["raised"] = 0
    /\ unit.at["finished"] = unit.stories
    /\ unit' = IF ok THEN EtlMarked ELSE EtlError
    /\ UNCHANGED orchestratorVars

NextEtl ==
    \/ \E f \in BOOLEAN : EtlEnter(f)
    \/ \E ok \in BOOLEAN : EtlPrelude(ok)
    \/ \E ok \in BOOLEAN : StoryStart(ok)
    \/ \E i \in DOMAIN StoryCalls : ClientAdmit(StoryCalls[i])
    \/ \E i \in DOMAIN StoryCalls, ok \in BOOLEAN, more \in BOOLEAN :
          ClientReturn(StoryCalls[i], ok, more)
    \/ EtlGatherRaises
    \/ \E ok \in BOOLEAN : EtlCommit(ok)

SpecEtl == InitEtl /\ [][NextEtl]_vars

(***************************************************************************)
(* migrate_tasks of either issue_migrator over the tasks of one story, a   *)
(* list whose ids need not be ascending; tasks with an odd id are          *)
(* complete.  migrate_issue calls it after the issue is created and then   *)
(* returns the issue, which migrate_issues puts into the mapping.          *)
(***************************************************************************)
TaskOf(k) == [id |-> 10 * UnitStory + k, complete |-> k % 2 = 1]

TaskLists ==
    {[i \in DOMAIN ks |-> TaskOf(ks[i])] :
        ks \in {q \in UNION {[1 .. n -> 1 .. MaxTasks] : n \in 0 .. MaxTasks} :
                   \A i, j \in DOMAIN q : i # j => q[i] # q[j]}}

\* linear migrate_tasks: create_issue with parent_id, then LinearIssue(...)
\* without its required creator_id, a TypeError: the update of a complete
\* task is never reached and every task is logged as failed
LinearTaskSteps(s, task) ==
    <<Step(Call("create_sub_issue", s, task.id), TRUE)>>

TaskSteps(d, s, task) ==
    IF d = "jira" THEN JiraTaskSteps(s, task) ELSE LinearTaskSteps(s, task)

InitTasks ==
    /\ Idle
    /\ \E d \in {"jira", "linear"}, ts \in TaskLists :
          \E F \in SUBSET UNION {{st.c : st \in Range(TaskSteps(d, UnitStory, ts[i]))} :
                                    i \in DOMAIN ts} :
             /\ Cardinality(F) <= MaxFailures + 1
             /\ unit = [fn |-> "migrate_tasks", done |-> FALSE, dest |-> d,
                        tasks |-> ts, todo |-> ts, F |-> F, calls |-> <<>>,
                        subtask_map |-> <<>>, logged |-> <<>>,
                        raised |-> FALSE, issue_map |-> {}]

TaskErrorPropagates == FALSE

\* "except Exception as e: logger.warning(...)" around each task
TaskErrorCaught == TRUE

\* one pass of "for pt_task in pt_tasks"
MigrateTasksPass ==
    /\ unit.fn = "migrate_tasks"
    /\ ~unit.done
    /\ unit.todo # <<>>
    /\ LET task == Head(unit.todo)
           r == RunInOrder(TaskSteps(unit.dest, UnitStory, task), {}, unit.F)
           failed_task == r.raised \/ unit.dest = "linear"
       IN  IF failed_task /\ ~TaskErrorCaught
           THEN unit' = [unit EXCEPT !.done = TRUE, !.raised = TRUE,
                                     !.calls = unit.calls \o r.calls]
           ELSE unit' = [unit EXCEPT
                            !.calls = unit.calls \o r.calls,
                            !.todo = Tail(unit.todo),
                            !.subtask_map =
                                IF failed_task THEN unit.subtask_map
                                ELSE Append(unit.subtask_map, task.id),
                            !.logged =
                                IF failed_task THEN Append(unit.logged, task.id)
                                ELSE unit.logged]
    /\ UNCHANGED orchestratorVars

\* migrate_tasks returns, migrate_issue returns the issue, and
\* migrate_issues enters it under the story's id
MigrateTasksReturn ==
    /\ unit.fn = "migrate_tasks"
    /\ ~unit.done
    /\ unit.todo = <<>>
    /\ unit' = [unit EXCEPT !.done = TRUE, !.issue_map = {UnitStory}]
    /\ UNCHANGED orchestratorVars

NextTasks == MigrateTasksPass \/ MigrateTasksReturn

SpecTasks == InitTasks /\ [][NextTasks]_vars

(***************************************************************************)
(* linear/api.py: LinearAPI.execute_query under retry_async, called by     *)
(* MaxCallers coroutines on the one client.  The callers are alike, so the *)
(* state keeps how many are at each place: <<"waiting", r>> before "async  *)
(* with self.semaphore", <<"in_flight", r>> inside it, <<"backoff", r>> in *)
(* the sleep of the wrapper, r being the wrapper's "retries".              *)
(***************************************************************************)
RetryPlaces ==
    {<<"idle", 0>>, <<"returned", 0>>, <<"raised", 0>>}
    \cup {<<k, r>> : k \in {"waiting", "in_flight"}, r \in 0 .. LinearMaxRetries - 1}
    \cup {<<"backoff", r>> : r \in 1 .. LinearMaxRetries - 1}

InFlightPlaces == {<<"in_flight", r>> : r \in 0 .. LinearMaxRetries - 1}

BackoffPlaces == {<<"backoff", r>> : r \in 1 .. LinearMaxRetries - 1}

InitRetry ==
    /\ Idle
    /\ unit = [fn |-> "retry", done |-> FALSE,
               value |-> MAX_CONCURRENT_REQUESTS,
               at |-> [p \in RetryPlaces |->
                          IF p = <<"idle", 0>> THEN MaxCallers ELSE 0]]

\* a coroutine calls execute_query: the wrapper starts with retries = 0
RetryCall ==
    /\ unit.fn = "retry"
    /\ unit.at[<<"idle", 0>>] > 0
    /\ unit' = [unit EXCEPT !.at = Move(unit.at, <<"idle", 0>>, <<"waiting", 0>>)]
    /\ UNCHANGED orchestratorVars

\* "async with self.semaphore": a permit is taken for this attempt
RetryAdmit(r) ==
    /\ unit.fn = "retry"
    /\ unit.at[<<"waiting", r>>] > 0
    /\ unit.value > 0
    /\ unit' = [unit EXCEPT
                   !.value = unit.value - 1,
                   !.at = Move(unit.at, <<"waiting", r>>, <<"in_flight", r>>)]
    /\ UNCHANGED orchestratorVars

HeldInBackoff(value) == value

\* LinearAPIError leaves "async with self.semaphore" before the wrapper
\* catches it and sleeps
ReleaseBeforeBackoff(value) == value + 1

\* the attempt ends: a result, or an exception that the wrapper counts and,
\* unless "retries == max_retries", sleeps on
RetryRespond(r, ok) ==
    /\ unit.fn = "retry"
    /\ unit.at[<<"in_flight", r>>] > 0
    /\ unit' = [unit EXCEPT
                   !.done = TRUE,
                   !.value = IF ok THEN unit.value + 1
                             ELSE ReleaseBeforeBackoff(unit.value),
                   !.at = Move(unit.at, <<"in_flight", r>>,
                               IF ok THEN <<"returned", 0>>
                               ELSE IF r + 1 = LinearMaxRetries
                               THEN <<"raised", 0>>
                               ELSE <<"backoff", r + 1>>)]
    /\ UNCHANGED orchestratorVars

\* "await asyncio.sleep(delay * (2 ** (retries - 1)))" is over
RetryWake(r) ==
    /\ unit.fn = "retry"
    /\ unit.at[<<"backoff", r>>] > 0
    /\ unit' = [unit EXCEPT
                   !.at = Move(unit.at, <<"backoff", r>>, <<"waiting", r>>)]
    /\ UNCHANGED orchestratorVars

NextRetry ==
    \/ RetryCall
    \/ \E r \in 0 .. LinearMaxRetries - 1 : RetryAdmit(r)
    \/ \E r \in 0 .. LinearMaxRetries - 1, ok \in BOOLEAN : RetryRespond(r, ok)
    \/ \E r \in 1 .. LinearMaxRetries - 1 : RetryWake(r)

SpecRetry == InitRetry /\ [][NextRetry]_vars

(***************************************************************************)
(* link_issues_to_epics for one story whose labels are given: the names of *)
(* the project's labels and a name that is not in the label mapping, in    *)
(* any order; any of the project's labels may belong to a migrated epic.   *)
(***************************************************************************)
UnitLabelNames ==
    {LabelName(l) : l \in ProjectLabels(ProjectOf(UnitStory))} \cup {LabelName(0)}

UnitLabelLists ==
    {q \in UNION {[1 .. n -> UnitLabelNames] : n \in 0 .. Cardinality(UnitLabelNames)} :
        \A i, j \in DOMAIN q : i # j => q[i] # q[j]}

InitLinks ==
    /\ Idle
    /\ \E labels \in UnitLabelLists,
          E \in SUBSET ProjectLabels(ProjectOf(UnitStory)),
          F \in SUBSET {Call("link_issue_to_epic", UnitStory, l) :
                           l \in ProjectLabels(ProjectOf(UnitStory))},
          mapped \in BOOLEAN :
          unit = [fn |-> "link_issues_to_epics", done |-> FALSE,
                  labels |-> labels, epic_map |-> [l \in E |-> EpicKey(l)],
                  F |-> F,
                  jira_issue_map |-> IF mapped
                                     THEN (UnitStory :> IssueKey(UnitStory))
                                     ELSE << >>,
                  made |-> {}]

\* one pass of "for pt_story in pt_stories"
ApplyLinkStory ==
    /\ unit.fn = "link_issues_to_epics"
    /\ ~unit.done
    /\ unit' = [unit EXCEPT
                   !.done = TRUE,
                   !.made = IF UnitStory \notin DOMAIN unit.jira_issue_map
                            THEN {}
                            ELSE JiraLinkLabels(UnitStory, unit.labels,
                                                unit.epic_map,
                                                ProjectOf(UnitStory), unit.F)]
    /\ UNCHANGED orchestratorVars

NextLinks == ApplyLinkStory

SpecLinks == InitLinks /\ [][NextLinks]_vars

(***************************************************************************)
(* Properties of the orchestrators.                                        *)
(***************************************************************************)
CurStories == IF cur = 0 THEN {} ELSE Range(Stories(cur))

\* migrate_issue(s) raised in the current call
StoryRaised(s) == JiraMigrateIssue(s, failed).raised

\* the destination issue of s was created
Created(s) == Call("create_issue", s, 0) \in sent \ failed

NotFailed(st) == st # "failed"

\* the stages the current call went through
Passed == SelectSeq(trace, NotFailed)

IsPrefix(a, b) == Len(a) <= Len(b) /\ SubSeq(b, 1, Len(a)) = a

\* the stage in which the current call raised
RaisedIn(st) ==
    /\ stage = "failed"
    /\ Len(trace) >= 2
    /\ trace[Len(trace) - 1] = st

C2_StoryIsolation ==
    /\ \A s \in CurStories :
          Call("create_issue", s, 0) \in sent
              => (s \in DOMAIN issue_map <=> ~StoryRaised(s))
    /\ (\E s \in CurStories : StoryRaised(s)) => ~RaisedIn("issues")
    /\ (\E st \in {"links", "blockers", "comments", "mark"} :
            st \in Range(trace))
          => \A s \in CurStories : Call("create_issue", s, 0) \in sent

C2_Witness ==
    /\ stage = "links"
    /\ \E s1, s2 \in CurStories :
          /\ s1 < s2
          /\ StoryRaised(s1) /\ s1 \notin DOMAIN issue_map
          /\ ~StoryRaised(s2) /\ s2 \in DOMAIN issue_map

\* C3: when exactly one story of the project fails to migrate and every
\* other remote call succeeds, migrate_project does not raise.
C3_OneStoryFailureCompletes ==
    (\E s \in CurStories : StoryRaised(s) /\ failed \subseteq IssueCalls(s))
        => stage # "failed"

\* the order of the stages in jira/main.py and linear/main.py
JiraStageOrder(p) ==
    <<"workspace", "users", "epics", "issues", "links", "blockers">>
    \o (IF Iterations(p) # <<>> THEN <<"sprints", "associate">> ELSE <<>>)
    \o <<"comments", "mark", "completed">>

LinearStageOrder ==
    <<"workspace", "users", "epics", "cycles", "issues", "comments",
      "relations", "mark", "completed">>

StageOrder(d, p) == IF d = "jira" THEN JiraStageOrder(p) ELSE LinearStageOrder

SpecRank(st) ==
    CASE st = "workspace" -> 1
      [] st = "users" -> 2
      [] st = "epics" -> 3
      [] st \in {"sprints", "associate", "cycles"} -> 4
      [] st = "issues" -> 5
      [] st \in {"links", "blockers", "relations"} -> 6
      [] st = "comments" -> 7
      [] OTHER -> 8

C5_IssueFirst ==
    \A c \in sent :
        /\ c.kind \in {"create_subtask", "transition_subtask",
                       "create_comment", "add_attachment"}
              => Created(c.ref)
        /\ c.kind = "create_blocker_link"
              => /\ Created(c.ref) /\ c.ref \in DOMAIN issue_map
                 /\ Created(c.other) /\ c.other \in DOMAIN issue_map

C5_Witness ==
    /\ \E s \in CurStories : Call("create_issue", s, 0) \in failed
    /\ \E c \in sent : c.kind = "create_subtask"
    /\ \E c \in sent : c.kind = "create_comment"

\* C6: the project id is written to the processed file only by a call that
\* went through all its stages; a call that raises reports one error and
\* leaves the file as it was, so that the project is not in the processed
\* set afterwards and a later run without --force starts it again.
C6_ProcessedOnlyOnSuccess ==
    /\ (cur # 0 /\ stage = "failed")
          => processedFile = fileAtEntry /\ results[cur] = "raised"
    /\ (cur # 0 /\ processedFile # fileAtEntry)
          => /\ stage = "completed"
             /\ Passed = StageOrder(dest, cur)
             /\ processedFile = Append(fileAtEntry, IntToStr(cur))
    /\ \A p \in unfinished : ~IsProcessed(dest, processedFile, p)

C6_Witness ==
    /\ dest = "jira"
    /\ run >= 2 /\ ~force
    /\ cur \in unfinished
    /\ pc = "project" /\ stage = "workspace"

\* C7: run_migration attempts every selected project, in order, whatever
\* the outcome of the projects before it.
C7_AllAttempted ==
    /\ pc \in {"loop", "project"} => attempted \o queue = SetToSeq(selected)
    /\ (pc = "idle" /\ lastRun \in {"running", "done"})
          => attempted = SetToSeq(selected)

C7_Witness ==
    /\ lastRun = "done"
    /\ Len(attempted) >= 2
    /\ results[attempted[1]] = "raised"
    /\ results[attempted[2]] = "returned"

(***************************************************************************)
(* Properties of the blocker functions.                                    *)
(***************************************************************************)
Applied(fns) == unit.fn \in fns /\ unit.done

BlockerFns == {"process_blockers", "migrate_story_relations"}

\* the story an unresolved blocker names, NoRef for none
Ref(b) == ParseBlockerId(b.description)

\* C8: an unresolved blocker on story B that names story A, both in the
\* work-item mapping, yields a link from A's issue to B's issue; no link goes
\* from an issue to itself.
C8_BlockerLink ==
    Applied(BlockerFns) =>
        /\ \A i \in DOMAIN unit.blockers :
              LET b == unit.blockers[i]
              IN  (/\ ~b.resolved
                   /\ Ref(b) \in DOMAIN unit.issues
                   /\ unit.story \in DOMAIN unit.issues
                   /\ ~unit.fails)
                     => \E k \in DOMAIN unit.result.links :
                           /\ unit.result.links[k].blocker_key
                                 = unit.issues[Ref(b)]
                           /\ unit.result.links[k].blocked_key
                                 = unit.issues[unit.story]
        /\ \A k \in DOMAIN unit.result.links :
              unit.result.links[k].blocker_key
                  # unit.result.links[k].blocked_key

\* the blocker is to be ignored: resolved, or one of its two stories is not
\* in the work-item mapping
Ignored(b) ==
    \/ b.resolved
    \/ Ref(b) \notin DOMAIN unit.issues
    \/ unit.story \notin DOMAIN unit.issues

\* C9: blockers that are resolved, or whose named or own story is absent
\* from the mapping, yield no link call and no error; a link call is made at
\* most once per blocker.
C9_IgnoredBlockers ==
    Applied(BlockerFns) =>
        /\ (\A i \in DOMAIN unit.blockers : Ignored(unit.blockers[i]))
              => unit.result.links = <<>> /\ ~unit.result.raised
        /\ Len(unit.result.links) <= Len(unit.blockers)

\* the text between the first '#' and the first space or '#' after it (or
\* the end of the text)
TokenStart(d) == CHOOSE i \in 1..Len(d) : d[i] = "#" /\ \A j \in 1..(i - 1) : d[j] # "#"

TokenEnd(d) ==
    LET after == {j \in (TokenStart(d) + 1)..Len(d) : d[j] \in {" ", "#"}}
    IN  IF after = {} THEN Len(d) + 1
        ELSE CHOOSE j \in after : \A k \in after : j <= k

\* C10: the story id of a description is the text between the first '#' and
\* the first space or '#' after it (or the end of the text) when that text
\* is a non-empty run of digits; any other description yields no reference.
C10_TokenOfDigits ==
    Applied({"parse"}) =>
        LET d == unit.description
        IN  IF "#" \notin Range(d) THEN unit.result = NoRef
            ELSE LET token == SubSeq(d, TokenStart(d) + 1, TokenEnd(d) - 1)
                 IN  IF token # <<>> /\ Range(token) \subseteq Digits
                     THEN unit.result = StrToInt(token)
                     ELSE unit.result = NoRef

C10_Witness ==
    /\ Applied({"parse"})
    /\ unit.description = <<"x", "#", "2", " ">>
    /\ unit.result = 2

\* the first '#' that a digit follows, and the digits after it
DigitRunStart(d) ==
    CHOOSE i \in 1..(Len(d) - 1) :
        /\ d[i] = "#" /\ d[i + 1] \in Digits
        /\ \A j \in 1..(i - 1) : ~(d[j] = "#" /\ d[j + 1] \in Digits)

DigitRunEnd(d) ==
    CHOOSE j \in (DigitRunStart(d) + 1)..Len(d) :
        /\ \A k \in (DigitRunStart(d) + 1)..j : d[k] \in Digits
        /\ (j = Len(d) \/ d[j + 1] \notin Digits)

\* C10 as stated: the id is the first '#'-prefixed run of digits, whatever
\* follows it; without a '#' followed by a digit there is no reference.
C10_FirstDigitRun ==
    Applied({"parse"}) =>
        LET d == unit.description
        IN  IF \E i \in 1..(Len(d) - 1) : d[i] = "#" /\ d[i + 1] \in Digits
            THEN unit.result
                     = StrToInt(SubSeq(d, DigitRunStart(d) + 1, DigitRunEnd(d)))
            ELSE unit.result = NoRef

(***************************************************************************)
(* Properties of the groupings.                                            *)
(***************************************************************************)
\* the call that creates the grouping of an epic
GroupingCall(e) ==
    Call(IF dest = "jira" THEN "create_epic" ELSE "create_project", e.id, 0)

\* the issue of story s was attached to a grouping
Linked(s) ==
    \E c \in sent \ failed : c.kind = "link_issue_to_epic" /\ c.ref = s

\* one of the labels of story s is the label of an epic of its project
Tagged(s) ==
    \E i \in DOMAIN StoryLabels(s) :
        \E e \in Range(Epics(ProjectOf(s))) :
            StoryLabels(s)[i] = LabelName(e.label_id)

\* C11: when migrate_project has ended and no remote call failed, every
\* epic has its grouping and a story is linked to a grouping exactly when it
\* carries the label of an epic.
C11_EpicLinks ==
    (cur # 0 /\ stage \in {"completed", "failed"} /\ failed = {})
        => /\ \A e \in Range(Epics(cur)) : GroupingCall(e) \in sent
           /\ \A s \in CurStories : Linked(s) <=> Tagged(s)

(***************************************************************************)
(* Properties of the clients (api.py, jira/api.py, linear/api.py).         *)
(***************************************************************************)
\* the refills of the limiter lose nothing to rounding
LimiterExact ==
    unit.fn = "acquire"
        => ((unit.now - unit.last_check) * LimiterRate) % LimiterInterval = 0

\* C12: while the calls arrive less than interval / rate apart, the n-th
\* call does not complete before (n - rate) * interval / rate seconds after
\* the first call.
C12_RateBound ==
    (unit.fn = "acquire" /\ unit.spaced)
        => \A n \in DOMAIN unit.calls :
              unit.calls[n].completed # NotYet
                  => (unit.calls[n].completed - unit.calls[1].entered)
                         * LimiterRate
                     >= (n - LimiterRate) * LimiterInterval * Scale

\* the number of 429 answers the remote gives before its first other answer
RECURSIVE Leading429(_, _)
Leading429(r, i) ==
    IF i > Len(r) \/ r[i] # 429 THEN 0 ELSE 1 + Leading429(r, i + 1)

RateLimitedThenOk ==
    /\ unit.fn = "request"
    /\ unit.client = "jira"
    /\ LET k == Leading429(unit.responses, 1)
       IN  k < MAX_RETRIES /\ unit.responses[k + 1] = 200

\* C13: answered 429 k times and then 200, _request returns the response on
\* attempt k+1; it has waited at least k times the Retry-After of the
\* answers, or k times the configured pause when they carry no Retry-After.
C13_RetryAfterWait ==
    (RateLimitedThenOk /\ unit.attempt > Leading429(unit.responses, 1))
        => LET k == Leading429(unit.responses, 1)
           IN  /\ unit.outcome = "ok"
               /\ unit.attempt = k + 1
               /\ unit.header # NoHeader => unit.waited >= k * 2 * unit.header
               /\ unit.header = NoHeader => unit.waited = k * unit.pause

\* the part of C13 about answers that carry a Retry-After
RetryAfterHonoured ==
    (RateLimitedThenOk /\ unit.attempt > Leading429(unit.responses, 1)
                       /\ unit.header # NoHeader)
        => LET k == Leading429(unit.responses, 1)
           IN  /\ unit.outcome = "ok"
               /\ unit.attempt = k + 1
               /\ unit.waited = k * 2 * unit.header

\* C14: a call whose first answer is a 4xx/5xx other than 429 is attempted
\* once and fails with the client's API error.
C14_NoRetryOnError ==
    (unit.fn = "request" /\ unit.responses[1] \in {404, 500}
                         /\ unit.attempt > 0)
        => /\ unit.attempt = 1
           /\ unit.done
                 => unit.outcome \in {"JiraAPIError", "LinearAPIError", "APIError"}

\* C15: the offsets _paginate requests are 0, limit, 2*limit, ... in this
\* order, and a call that returns a list returns the items of the endpoint,
\* each once and in order, after total \div limit + 1 requests.
C15_Pagination ==
    unit.fn = "paginate"
        => /\ \A i \in DOMAIN unit.offsets :
                 unit.offsets[i] = (i - 1) * unit.limit
           /\ unit.outcome = "list"
                 => /\ unit.all_items = [i \in 1 .. unit.total |-> i]
                    /\ Len(unit.offsets) = unit.total \div unit.limit + 1

C15_Witness ==
    /\ unit.fn = "paginate"
    /\ unit.outcome = "list"
    /\ unit.total = 2 * unit.limit
    /\ Len(unit.offsets) = 3

InFlight == {i \in Callers : unit.at[i] = "in_flight"}

Admitted == {i \in Callers : unit.at[i] \in {"limiter", "in_flight"}}

\* C16: the requests in flight on a client never outnumber its admission
\* pool, whatever the number of callers, and every permit not held by an
\* admitted caller is free again, also after a request has failed.
C16_PoolBound ==
    unit.fn = "pool"
        => /\ Cardinality(InFlight) <= PoolSize(unit.client)
           /\ unit.value = PoolSize(unit.client) - Cardinality(Admitted)

C16_Witness ==
    /\ unit.fn = "pool"
    /\ unit.raised
    /\ Cardinality(InFlight) = PoolSize(unit.client)
    /\ \E i \in Callers : unit.at[i] = "waiting"
    /\ unit.client = "pivotal"
          => {unit.op[i] : i \in InFlight} = Methods("pivotal")

(***************************************************************************)
(* Properties of the comment migrators.                                    *)
(***************************************************************************)
AttachmentKinds == {"add_attachment", "create_attachment"}

Delivered(c) == c \notin unit.F

Unmigratable(a) ==
    \/ a \in unit.absent
    \/ \E k \in AttachmentKinds : Call(k, UnitStory, a) \in unit.F

\* C18: when attachments of a comment cannot be migrated and the creating
\* call itself would succeed, the comment is still created and every other
\* attachment is still sent.
C18_AttachmentIsolation ==
    (/\ unit.fn = "migrate_comments"
     /\ unit.done
     /\ \E a \in Range(unit.comment.attachments) : Unmigratable(a)
     /\ Delivered(Call("create_comment", UnitStory, unit.comment.id)))
        => /\ Call("create_comment", UnitStory, unit.comment.id)
                 \in Range(unit.calls)
           /\ \A a \in Range(unit.comment.attachments) :
                 ~Unmigratable(a)
                     => \E i \in DOMAIN unit.calls :
                           /\ unit.calls[i].kind \in AttachmentKinds
                           /\ unit.calls[i].other = a

(***************************************************************************)
(* Properties of the ID-mappings.                                          *)
(***************************************************************************)
\* C19: after the process has stopped at any point of migrate_issues, every
\* issue that was created at the destination is found in the mapping the
\* next process has.
C19_DurableMapping ==
    (unit.fn = "migrate_issues" /\ unit.crashed)
        => \A s \in unit.created : s \in DOMAIN unit.issue_map

\* C20: within a run an entry of the mapping is never removed and never
\* written again: a key that is in the mapping keeps its value.
C20_AppendOnly ==
    [][unit.fn = "migrate_cycles"
          => \A k \in DOMAIN unit.cycle_map :
                /\ k \in DOMAIN unit'.cycle_map
                /\ unit'.cycle_map[k] = unit.cycle_map[k]]_vars

(***************************************************************************)
(* Properties of the processed-project stores.                             *)
(***************************************************************************)
\* C21: an id marked since the last clear passes the membership test of the
\* store's caller; after a clear no id passes it.
C21_MarkedIsMember ==
    unit.fn = "store"
        => /\ \A id \in unit.marked : StoreHas(unit.store, unit.file, id)
           /\ unit.cleared
                 => \A id \in ProjectIds : ~StoreHas(unit.store, unit.file, id)

\* the same for the two stores that are read back as integers
IntStoresKeepMarks ==
    (unit.fn = "store" /\ unit.store # "linear")
        => /\ \A id \in unit.marked : StoreHas(unit.store, unit.file, id)
           /\ unit.cleared
                 => \A id \in ProjectIds : ~StoreHas(unit.store, unit.file, id)

(***************************************************************************)
(* Properties of the workspace stage over successive calls.                *)
(***************************************************************************)
\* C22: a migrate_project call without force for a project whose workspace
\* an earlier call has created sends no create-workspace call.
C22_WorkspaceReused ==
    (unit.fn = "workspace" /\ unit.project # 0 /\ ~unit.force
                           /\ unit.before > 0)
        => ~unit.create_sent

\* the answers among the first n of r that are x
RECURSIVE CountOf(_, _, _)
CountOf(r, n, x) ==
    IF n = 0 THEN 0 ELSE CountOf(r, n - 1, x) + (IF r[n] = x THEN 1 ELSE 0)

\* C23: _request fails with RateLimitError only after MAX_RETRIES answers of
\* 429, and fails for transport errors only after MAX_RETRIES transport
\* errors, whatever the number of 429 answers in between.
C23_SeparateBudgets ==
    (unit.fn = "request" /\ unit.client = "jira" /\ unit.attempt > 0)
        => /\ unit.outcome = "RateLimitError"
                 => CountOf(unit.responses, unit.attempt, 429) = MAX_RETRIES
           /\ (unit.outcome = "JiraAPIError"
                  /\ unit.responses[unit.attempt] = ConnError)
                 => CountOf(unit.responses, unit.attempt, ConnError)
                        = MAX_RETRIES

\* the part of C23 about a remote that only answers 429
Only429EndsInRateLimit ==
    (unit.fn = "request" /\ unit.client = "jira" /\ unit.done
        /\ \A i \in DOMAIN unit.responses : unit.responses[i] = 429)
        => /\ unit.outcome = "RateLimitError"
           /\ unit.attempt = MAX_RETRIES

Retries(client) == IF client = "jira" THEN MAX_RETRIES ELSE LinearMaxRetries

\* C24: a call of JiraAPI or LinearAPI whose every attempt fails at transport
\* level is attempted N times, sleeps longer before each retry than before
\* the one before, and ends with an error.
C24_TransportRetries ==
    (unit.fn = "request" /\ unit.client \in {"jira", "linear"} /\ unit.done
        /\ \A i \in DOMAIN unit.responses : unit.responses[i] = ConnError)
        => /\ unit.attempt = Retries(unit.client)
           /\ unit.outcome \in {"JiraAPIError", "LinearAPIError"}
           /\ \A i, j \in DOMAIN unit.delays :
                 i < j => unit.delays[i] < unit.delays[j]

\* the part of C24 without the growth of the delays
TransportAttempts ==
    (unit.fn = "request" /\ unit.client \in {"jira", "linear"} /\ unit.done
        /\ \A i \in DOMAIN unit.responses : unit.responses[i] = ConnError)
        => /\ unit.attempt = Retries(unit.client)
           /\ unit.outcome \in {"JiraAPIError", "LinearAPIError"}
           /\ Len(unit.delays) = Retries(unit.client) - 1

\* C25: every request a client has sent was preceded by an acquire() of
\* the rate limiter in the same call.
C25_AcquireBeforeSend ==
    unit.fn = "request" => unit.acquires >= unit.attempt

\* the part of C25 about PivotalTrackerAPI
PivotalAcquires ==
    (unit.fn = "request" /\ unit.client = "pivotal")
        => unit.acquires = unit.attempt

(***************************************************************************)
(* Properties of the periods stage.                                        *)
(***************************************************************************)
PeriodKinds == {"create_sprint", "create_cycle", "add_issues_to_sprint"}

\* C26: for a project without iterations no sprint, cycle or association
\* call is sent, and the call goes on from the point of the periods stage
\* to the stage after it: jira from the blockers to the comments, linear
\* from the cycles to the issues.
C26_NoIterations ==
    (cur # 0 /\ Iterations(cur) = <<>>)
        => /\ \A c \in sent : c.kind \notin PeriodKinds
           /\ \A i \in 1 .. (Len(trace) - 1) :
                 /\ (dest = "jira" /\ trace[i] = "blockers")
                       => trace[i + 1] = "comments"
                 /\ (dest = "linear" /\ trace[i] = "cycles")
                       => trace[i + 1] = "issues"

C26_Witness ==
    /\ dest = "jira"
    /\ cur # 0
    /\ Iterations(cur) = <<>>
    /\ stage = "completed"
    /\ "blockers" \in Range(trace)

(***************************************************************************)
(* Properties of migrate_comments over a list of comments.                 *)
(***************************************************************************)
\* the place of the comment with this id in the source list
PlaceOf(id) == CHOOSE i \in DOMAIN unit.comments : unit.comments[i].id = id

CreateCalls == SelectSeq(unit.calls, LAMBDA c : c.kind = "create_comment")

\* C27: the comments are created in the order of the source list, and at
\* the end of migrate_comments a comment is migrated exactly when its own
\* calls went through, whatever happened to the comments before it.
C27_CommentOrder ==
    unit.fn = "comment_list"
        => /\ \A i, j \in DOMAIN CreateCalls :
                 i < j => PlaceOf(CreateCalls[i].other)
                              < PlaceOf(CreateCalls[j].other)
           /\ unit.todo = <<>>
                 => \A i \in DOMAIN unit.comments :
                       (\E k \in DOMAIN unit.migrated_comments :
                           unit.migrated_comments[k] = unit.comments[i].id)
                       <=> ~RunInOrder(CommentSteps(unit.dest, UnitStory,
                                                    unit.comments[i]),
                                       unit.absent, unit.F).raised

C27_Witness ==
    /\ unit.fn = "comment_list"
    /\ unit.todo = <<>>
    /\ Len(unit.comments) = 3
    /\ unit.comments[1].id > unit.comments[2].id
    /\ unit.migrated_comments = <<unit.comments[1].id, unit.comments[3].id>>

(***************************************************************************)
(* Properties of the outcome of migrate_project.                           *)
(***************************************************************************)
\* C28: a migrate_project call ends in the failed state only after a remote
\* call has failed.
C28_FailsOnlyOnRemoteFailure ==
    (cur # 0 /\ stage = "failed") => failed # {}

\* under Jira the call with no remote failure completes and records the
\* project
JiraFailsOnlyOnRemoteFailure ==
    (dest = "jira" /\ cur # 0 /\ failed = {})
        => /\ stage # "failed"
           /\ stage = "completed" => Recorded(processedFile, cur)

\* C29: migrate_project does not fail in the association of the issues with
\* their periods because an iteration has no entry in the iteration mapping.
C29_MissingPeriodContinues ==
    (cur # 0 /\ \E n \in Range(Iterations(cur)) : n \notin DOMAIN sprint_map)
        => ~RaisedIn("associate")

\* the migrators of the periods themselves log the failed iteration, leave
\* it out of the mapping and do not raise
PeriodStageIsolates ==
    ~RaisedIn("sprints") /\ ~RaisedIn("cycles")

(***************************************************************************)
(* Properties of the errors of the Jira client.                            *)
(***************************************************************************)
\* the status of the response that ended the request
LastStatus == unit.responses[unit.attempt]

\* C30: the error of a non-429 error response carries the status of that
\* response, and get_user returns None when the request ended with 404 and
\* raises for every other error.
C30_GetUserNotFound ==
    (unit.fn = "request" /\ unit.client = "jira" /\ unit.get_user # "pending")
        => /\ (unit.outcome = "JiraAPIError" /\ LastStatus >= 400)
                 => unit.status_code = LastStatus
           /\ (unit.outcome = "JiraAPIError" /\ LastStatus = 404)
                 => unit.get_user = "none"
           /\ (unit.outcome # "ok" /\ LastStatus # 404)
                 => unit.get_user = "raised"

\* get_user re-raises every error of the request, 404 included
GetUserAlwaysRaises ==
    (unit.fn = "request" /\ unit.client = "jira" /\ unit.get_user # "pending")
        => (unit.get_user = "raised" <=> unit.outcome # "ok")

C32_MarkAfterAll ==
    unit.fn = "etl"
        => /\ unit.file # unit.before
                 => /\ unit.at["finished"] = unit.stories
                    /\ unit.at["raised"] = 0
                    /\ unit.committed
                    /\ unit.file = MarkProcessed(unit.before, EtlProject)
           /\ (unit.main = "returned" /\ unit.at["raised"] > 0)
                 => unit.outcome = "error" /\ unit.file = unit.before
           /\ unit.outcome = "skipped"
                 => StoreHas("etl", unit.before, EtlProject) /\ ~unit.force
           /\ (unit.previous = "story raised" /\ unit.call = "later" /\ ~unit.force)
                 => unit.outcome # "skipped"

C32_Witness ==
    /\ unit.fn = "etl"
    /\ unit.call = "later"
    /\ ~unit.force
    /\ unit.previous = "story raised"
    /\ unit.main = "returned"
    /\ unit.outcome = "marked"
    /\ unit.stories > 1

(***************************************************************************)
(* Properties of migrate_tasks.                                            *)
(***************************************************************************)
TaskPlace(id) == CHOOSE i \in DOMAIN unit.tasks : unit.tasks[i].id = id

TaskCreateKinds == {"create_subtask", "create_sub_issue"}

\* C33: the calls for the tasks follow the order of the task list; when
\* migrate_tasks is over it has not raised, the story is in the work-item
\* mapping, the creation of every task was attempted, and under Jira a task
\* is in the subtask mapping exactly when its own calls went through.
C33_TaskIsolation ==
    unit.fn = "migrate_tasks"
        => /\ \A i, j \in DOMAIN unit.calls :
                 i < j => TaskPlace(unit.calls[i].other)
                              <= TaskPlace(unit.calls[j].other)
           /\ unit.done
                 => /\ ~unit.raised
                    /\ UnitStory \in unit.issue_map
                    /\ \A i \in DOMAIN unit.tasks :
                          \E k \in DOMAIN unit.calls :
                             /\ unit.calls[k].kind \in TaskCreateKinds
                             /\ unit.calls[k].other = unit.tasks[i].id
                    /\ unit.dest = "jira" =>
                          \A i \in DOMAIN unit.tasks :
                             (\E k \in DOMAIN unit.subtask_map :
                                 unit.subtask_map[k] = unit.tasks[i].id)
                             <=> ~RunInOrder(JiraTaskSteps(UnitStory, unit.tasks[i]),
                                             {}, unit.F).raised

C33_Witness ==
    /\ unit.fn = "migrate_tasks"
    /\ unit.done
    /\ unit.dest = "jira"
    /\ Len(unit.tasks) = 3
    /\ unit.tasks[1].id > unit.tasks[2].id
    /\ unit.logged = <<unit.tasks[1].id, unit.tasks[2].id>>
    /\ unit.subtask_map = <<unit.tasks[3].id>>
    /\ UnitStory \in unit.issue_map

(***************************************************************************)
(* Properties of the allowance of the RateLimiter.                         *)
(***************************************************************************)
\* the call slept in acquire()
Slept(call) == call.wake > call.entered

AllowanceInRange ==
    unit.fn = "acquire"
        => /\ 0 <= unit.allowance
           /\ unit.allowance <= LimiterRate * Scale
           /\ \A n \in DOMAIN unit.calls :
                 unit.calls[n].completed # NotYet
                     => unit.calls[n].left
                            = IF Slept(unit.calls[n]) THEN 0
                              ELSE unit.calls[n].accrued - Scale

\* C34: the allowance stays between 0 and the rate; a call that slept leaves
\* it at 0 and a call that did not sleep leaves what had accrued minus one
\* token; every call that has entered acquire() returns.
C34_Allowance ==
    /\ []AllowanceInRange
    /\ \A n \in 1 .. MaxAcquires :
          (unit.fn = "acquire" /\ n \in DOMAIN unit.calls)
              ~> (unit.fn = "acquire" /\ n \in DOMAIN unit.calls
                     /\ unit.calls[n].completed # NotYet)

\* a call has slept while a later call entered, and has returned
C34_Witness ==
    /\ unit.fn = "acquire"
    /\ \E n \in DOMAIN unit.calls :
          /\ Slept(unit.calls[n])
          /\ unit.calls[n].completed # NotYet
          /\ unit.calls[n].left = 0
          /\ \E m \in DOMAIN unit.calls :
                /\ unit.calls[m].entered > unit.calls[n].entered
                /\ unit.calls[m].entered < unit.calls[n].wake
                /\ unit.calls[m].accrued > 0

(***************************************************************************)
(* Properties of the end of _paginate.                                     *)
(***************************************************************************)
\* the items the endpoint answered request i with
Answer(i) ==
    IF unit.kind = "endless" THEN Page(unit.limit, 0, unit.limit)
    ELSE Page(unit.total, unit.offsets[i], unit.limit)

\* C35: _paginate returns only after a page shorter than limit, which is
\* its first such page and request number total \div limit + 1, or after a
\* non-list answer, which it returns alone in place of what it has
\* accumulated; against full pages without end it does not return.
C35_PaginateEnds ==
    unit.fn = "paginate"
        => /\ unit.outcome = "list"
                 => /\ Len(Answer(Len(unit.offsets))) < unit.limit
                    /\ \A i \in 1 .. (Len(unit.offsets) - 1) :
                          Len(Answer(i)) = unit.limit
                    /\ Len(unit.offsets) = unit.total \div unit.limit + 1
                    /\ unit.total % unit.limit = 0
                          => Answer(Len(unit.offsets)) = <<>>
                    /\ unit.result = [kind |-> "list", value |-> unit.all_items]
           /\ unit.outcome = "object"
                 => /\ Len(unit.offsets) = unit.objectAt
                    /\ unit.result = [kind |-> "object", value |-> <<0>>]
           /\ unit.kind = "endless" => unit.outcome \notin {"list", "object"}
           /\ (unit.outcome = "running" /\ unit.offsets # <<>>)
                 => \A i \in DOMAIN unit.offsets : Len(Answer(i)) = unit.limit

\* a non-list answer after full pages had been accumulated
C35_Witness ==
    /\ unit.fn = "paginate"
    /\ unit.outcome = "object"
    /\ Len(unit.all_items) = 2 * unit.limit
    /\ unit.result.value = <<0>>

\* full pages without end: still running after MaxPages requests
EndlessStillRunning ==
    /\ unit.fn = "paginate"
    /\ unit.kind = "endless"
    /\ unit.outcome = "running"
    /\ Len(unit.offsets) = MaxPages

(***************************************************************************)
(* Properties of the story-to-issue mapping.                               *)
(***************************************************************************)
\* C36: once the work-items stage is over, a story of the project is in the
\* story-to-issue mapping exactly when its destination issue was created.
C36_MappingMatchesCreated ==
    (cur # 0 /\ \E st \in {"links", "blockers", "comments"} :
                   st \in Range(trace))
        => \A s \in CurStories : s \in DOMAIN issue_map <=> Created(s)

\* the mapping never holds a story whose issue was not created
MappedWereCreated ==
    cur # 0 => \A s \in CurStories : s \in DOMAIN issue_map => Created(s)

OwnCycleFound ==
    (unit.fn = "migrate_cycles" /\ unit.asked # 0 /\ unit.found = 0)
        => unit.asked \notin DOMAIN unit.cycle_map

(***************************************************************************)
(* Properties of the RateLimiter under concurrent callers.                 *)
(***************************************************************************)
\* the calls that have returned from acquire()
Returned == {n \in DOMAIN unit.calls : unit.calls[n].completed # NotYet}

\* the calls asleep in acquire() at the moment call n entered it
AsleepAt(n) ==
    {m \in DOMAIN unit.calls :
        /\ m <= n
        /\ Slept(unit.calls[m])
        /\ unit.calls[m].wake > unit.calls[n].entered}

\* never more callers inside acquire() than the client's semaphore admits
WithinPool == \A n \in DOMAIN unit.calls : Cardinality(AsleepAt(n)) <= PivotalPool

\* C38: with at most as many callers inside acquire() as the semaphore
\* admits, the calls that return within a time window of length t are at
\* most rate + t * rate / interval.
C38_WindowBound ==
    (unit.fn = "acquire" /\ WithinPool)
        => \A a, b \in Returned :
              unit.calls[a].completed <= unit.calls[b].completed
                  => Cardinality({n \in Returned :
                         /\ unit.calls[a].completed <= unit.calls[n].completed
                         /\ unit.calls[n].completed <= unit.calls[b].completed})
                       * LimiterInterval * Scale
                     <= LimiterRate * LimiterInterval * Scale
                        + (unit.calls[b].completed - unit.calls[a].completed)
                              * LimiterRate

\* the first rate calls alone keep to the bound
BurstWithinBound ==
    unit.fn = "acquire"
        => Cardinality({n \in Returned : ~Slept(unit.calls[n])
                                         /\ unit.calls[n].completed = 0})
               <= LimiterRate

(***************************************************************************)
(* Properties of execute_query under retry_async.                          *)
(***************************************************************************)
\* C39: the permits taken are those of the attempts in flight, so a caller
\* in backoff holds none and a waiting caller is admitted whenever fewer
\* attempts than permits are in flight; no caller is at an attempt beyond
\* max_retries.
C39_NoPermitInBackoff ==
    unit.fn = "retry"
        => /\ unit.value
                 = MAX_CONCURRENT_REQUESTS - Sum(unit.at, InFlightPlaces)
           /\ Sum(unit.at, InFlightPlaces) < MAX_CONCURRENT_REQUESTS
                 => unit.value > 0
           /\ Sum(unit.at, RetryPlaces) = MaxCallers
           /\ DOMAIN unit.at = RetryPlaces

\* as many callers in backoff as there are permits, and one more admitted
C39_Witness ==
    /\ unit.fn = "retry"
    /\ Sum(unit.at, BackoffPlaces) = MAX_CONCURRENT_REQUESTS
    /\ Sum(unit.at, InFlightPlaces) = 1

(***************************************************************************)
(* Properties of link_issues_to_epics.                                     *)
(***************************************************************************)
\* label i of the story names an epic that was migrated
Matches(i) ==
    /\ unit.labels[i] \in DOMAIN LabelMapping(ProjectOf(UnitStory))
    /\ LabelMapping(ProjectOf(UnitStory))[unit.labels[i]] \in DOMAIN unit.epic_map

LinkCall(i) ==
    Call("link_issue_to_epic", UnitStory,
         LabelMapping(ProjectOf(UnitStory))[unit.labels[i]])

\* C40: at most one link call of a story succeeds; the call for a matching
\* label is made exactly when the calls for all matching labels before it
\* failed; a story that is not in the work-item mapping causes no call.
C40_OneEpicPerIssue ==
    (unit.fn = "link_issues_to_epics" /\ unit.done)
        => /\ Cardinality(unit.made \ unit.F) <= 1
           /\ UnitStory \notin DOMAIN unit.jira_issue_map => unit.made = {}
           /\ UnitStory \in DOMAIN unit.jira_issue_map
                 => /\ \A i \in DOMAIN unit.labels :
                          Matches(i)
                              => (LinkCall(i) \in unit.made
                                     <=> \A j \in 1 .. (i - 1) :
                                            Matches(j) => LinkCall(j) \in unit.F)
                    /\ unit.made \subseteq
                           {LinkCall(i) : i \in {k \in DOMAIN unit.labels : Matches(k)}}

\* the first matching label's call failed and the second one's went through
C40_Witness ==
    /\ unit.fn = "link_issues_to_epics"
    /\ unit.done
    /\ Cardinality(unit.made) = 2
    /\ Cardinality(unit.made \ unit.F) = 1
    /\ Len(unit.labels) = 3

====
